---------------------------- MODULE Spec2Model ----------------------------
(***************************************************************************)
(* A model of the genagent orchestration core: the static task list        *)
(* (defTaskList), the dynamic task list (defDynamicTaskList), the hook     *)
(* pipeline (applyMessageHooks) and the generation/retry engine            *)
(* (executeAgent).                                                         *)
(*                                                                         *)
(* Strings built by template literals are modelled as tuples of their      *)
(* parts, so that two texts are equal exactly when all interpolated parts  *)
(* are equal.                                                              *)
(***************************************************************************)
EXTENDS Integers, Sequences, FiniteSets, TLC

VARIABLES
    registered,          \* which task list the prompt function registered in this run
    \* ---- static task list (TaskListState) ----
    tasks,               \* state.tasks: the prompts, fixed at registration
    currentTaskIndex,    \* state.currentTaskIndex (0-based cursor)
    completedTasks,      \* state.completedTasks
    validationFeedback,  \* state.validationFeedback
    lastCall,            \* the last tool call: its tool name and arguments
    toolResult,          \* what the last tool call returned or threw
    \* ---- dynamic task list (DynamicTaskListState) ----
    taskMap,             \* state.tasks: Map from task id to DynamicTask
    taskOrder,           \* state.taskOrder
    nextId,              \* state.nextId
    hasStarted,          \* state.hasStarted
    allocated,           \* history: the ids generateTaskId has returned, in order
    createdCount,        \* history: number of createTask calls that succeeded
    deletedCount,        \* history: number of deleteTask calls that succeeded
    \* ---- hook pipeline (applyMessageHooks) ----
    messages,            \* the messages registered with defMessage
    hooks,               \* the hooks registered with defHook, in order
    foldIndex,           \* position of the for loop over hooks (0: not running)
    foldMessages,        \* the loop's local currentMessages
    hookCalls,           \* history: one entry per call of a hook by the loop
    \* ---- the context's registrations (createContext) ----
    tools,               \* the tools registered with defTool, in order
    defResult,           \* what the last registration call returned or threw
    variables,           \* the Map filled by def
    variableInstructionsAdded, \* createContext's flag of the same name
    \* ---- the tool wrapper (convertToolsToAIFormat) ----
    toolCalls,           \* state.toolCalls
    inFlight,            \* positions in toolCalls whose executor has not settled
    callOutcomes,        \* history: what each wrapper call gave back to the model step
    \* ---- static task list with compaction (TaskListState) ----
    compactionConfig,    \* whether state.compactionConfig is set
    originalMessages,    \* state.originalMessages
    suspended,           \* finishTask executions awaiting compactHistory
    \* ---- interactive control ----
    paused,              \* pausedRef.value
    \* ---- the streaming buffer ----
    streamingText,       \* state.streamingText (the empty text while it is unset)
    received,            \* executeAgent's local streamedText, with the call it belongs to
    \* ---- a sub-agent run ----
    subagent,            \* the sub run's own lists and state, and the parent call it serves
    \* ---- executeAgent ----
    responseSchema,      \* whether the run declares a response schema
    pc,                  \* position of the run: idle, call, generating, done
    attempt,             \* the for loop's attempt
    steps,               \* generations used by the current streamText call
    providerCalls,       \* history: the messages of every streamText call
    currentMessages,     \* executeAgent's local currentMessages
    transformedMessages, \* the option transformedMessages
    validationAttempts,  \* state.validationAttempts
    outcome,             \* what executeAgent returned or threw
    \* ---- hook applications since the last state change ----
    hookInput,           \* the messages handed to the hook
    hookRuns,            \* outputs of the hook, in order of application
    now                  \* the wall clock read by Date.now()

staticVars == <<tasks, currentTaskIndex, completedTasks, validationFeedback>>
dynVars    == <<taskMap, taskOrder, nextId, hasStarted, allocated, createdCount, deletedCount>>
hookVars   == <<hookInput, hookRuns, now>>
pipeVars   == <<messages, hooks, foldIndex, foldMessages, hookCalls>>
ctxVars    == <<tools, defResult, variables, variableInstructionsAdded>>
wrapVars   == <<toolCalls, inFlight, callOutcomes>>
compactVars == <<compactionConfig, originalMessages, suspended>>
streamVars == <<streamingText, received>>
auxVars    == <<ctxVars, wrapVars, paused, compactVars, streamVars, subagent>>
engVars    == <<responseSchema, pc, attempt, steps, providerCalls, currentMessages,
                transformedMessages, validationAttempts, outcome>>
vars       == <<registered, tasks, currentTaskIndex, completedTasks, validationFeedback,
                lastCall, toolResult, taskMap, taskOrder, nextId, hasStarted, allocated,
                createdCount, deletedCount, messages, hooks, foldIndex, foldMessages,
                hookCalls, auxVars, engVars, hookInput, hookRuns, now>>

\* What the actions of each component leave alone
StaticFrame == <<registered, dynVars, pipeVars, auxVars>>
DynFrame    == <<registered, staticVars, pipeVars, auxVars>>
PipeFrame   == <<registered, staticVars, dynVars, lastCall, toolResult, hookVars, auxVars>>
EngineFrame == <<registered, staticVars, dynVars, lastCall, toolResult, pipeVars, hookVars,
                 auxVars>>

(***************************************************************************)
(* Bounds of the model and values of the environment.                      *)
(***************************************************************************)
NTasks     == 2   \* number of tasks registered in the static list
MaxHooks   == 3   \* number of hooks registered in one run
RunCreates == 1   \* tasks a model creates in a run of the engine
DeleteCreates == 3   \* tasks created where deletions from a longer list are followed
MaxToolCalls == 3   \* invocations of the tool wrapper in one run
MaxDefs == 3   \* length of each of the context's lists of registrations
MaxCreates == 2   \* createTask is followed for this many calls
MaxOverlap == 2   \* finishTask executions suspended at the same time

Undefined == "undefined"
Prompts   == {"A", "B"}
Results   == {"r1", "r2"}
\* what a caller-supplied validation function can return
FeedbackVals == {Undefined, "", "fb1", "fb2"}
\* values Date.now() can return, in increasing order of time
ClockValues == {0, 1}
\* Math.random() is a generator: its k-th value within one hook application
\* is Rnd(seed, k) for a generator state (seed) the environment decides
Seeds     == {"s1", "s2"}
Rnd(seed, k) == <<seed, k>>

\* what a later read of the clock can return
LaterClock == {t \in ClockValues : t >= now}

\* JavaScript truthiness of a value of type string | undefined
Truthy(v) == v # Undefined /\ v # ""

\* The tool and args of a tool-call record
Call(tool, args) == [tool |-> tool, args |-> args]
NoCall   == Call("none", <<>>)
NoResult == [kind |-> "none", text |-> <<>>]
Returned(text) == [kind |-> "return", text |-> text]
Thrown(text)   == [kind |-> "throw", text |-> text]

\* Messages a caller may have registered before the hook runs
PlainMsg(name, content) == [name |-> name, content |-> content]
InputMsgs == { << PlainMsg("system", <<"MODE ACTIVE">>) >>,
               << PlainMsg("system", <<"MODE ACTIVE">>), PlainMsg("assistant", <<"hello">>) >> }

(***************************************************************************)
(* createMessage                                                           *)
(***************************************************************************)
DefaultType(name) ==
    IF name = "user" THEN "user" ELSE IF name = "system" THEN "system" ELSE "assistant"

createMessage(name, content, t, r) ==
    [ id        |-> <<t, r>>,
      name      |-> name,
      content   |-> content,
      type      |-> DefaultType(name),
      timestamp |-> t,
      parentId  |-> Undefined,
      metadata  |-> Undefined ]

\* The fields the engine sends to the provider (role and content)
Wire(msgs) == [i \in 1..Len(msgs) |-> <<DefaultType(msgs[i].name), msgs[i].content>>]

(***************************************************************************)
(* Static task list: finishTask                                            *)
(***************************************************************************)
ValidationFails(feedback) == Truthy(feedback)

FailureText(feedback) ==
    <<"Validation failed: ", feedback,
      "\n\nPlease review the task and provide a corrected result.">>

\* (variant: the increment is lost)
AdvanceCursor_Lost(c) == c

\* (variant: the cursor skips a task)
AdvanceCursor_Skips(c) == c + 2

AdvanceCursor(c) == c + 1

\* (variant: the success text names the task that was just finished)
SuccessText_NamesFinished(c) ==
    IF c < Len(tasks)
    THEN <<"Task completed successfully! Next task: ", tasks[c]>>
    ELSE <<"All tasks completed successfully! The task list is complete.">>

SuccessText(c) ==
    IF c < Len(tasks)
    THEN <<"Task completed successfully! Next task: ", tasks[c + 1]>>
    ELSE <<"All tasks completed successfully! The task list is complete.">>

\* (variant: a failed validation returns its text but does not store it)
FinishTask_FeedbackNotStored(result, feedback) ==
    /\ registered = "static"
    /\ IF currentTaskIndex >= Len(tasks)
       THEN /\ toolResult' = Thrown(<<"TypeError">>)
            /\ UNCHANGED staticVars
       ELSE IF ValidationFails(feedback)
       THEN /\ toolResult' = Returned(FailureText(feedback))
            /\ UNCHANGED staticVars
       ELSE /\ completedTasks' = Append(completedTasks,
                    [task |-> tasks[currentTaskIndex + 1], result |-> result])
            /\ validationFeedback' = Undefined
            /\ currentTaskIndex' = AdvanceCursor(currentTaskIndex)
            /\ toolResult' = Returned(SuccessText(AdvanceCursor(currentTaskIndex)))
            /\ UNCHANGED tasks
    /\ lastCall' = Call("finishTask", <<result>>)
    /\ hookRuns' = <<>>
    /\ hookInput' = <<>>
    /\ UNCHANGED <<now, StaticFrame>>

\* (variant: a passed validation leaves the stored feedback in place)
FinishTask_KeepsFeedback(result, feedback) ==
    /\ registered = "static"
    /\ IF currentTaskIndex >= Len(tasks)
       THEN /\ toolResult' = Thrown(<<"TypeError">>)
            /\ UNCHANGED staticVars
       ELSE IF ValidationFails(feedback)
       THEN /\ validationFeedback' = feedback
            /\ toolResult' = Returned(FailureText(feedback))
            /\ UNCHANGED <<tasks, currentTaskIndex, completedTasks>>
       ELSE /\ completedTasks' = Append(completedTasks,
                    [task |-> tasks[currentTaskIndex + 1], result |-> result])
            /\ currentTaskIndex' = AdvanceCursor(currentTaskIndex)
            /\ toolResult' = Returned(SuccessText(AdvanceCursor(currentTaskIndex)))
            /\ UNCHANGED <<tasks, validationFeedback>>
    /\ lastCall' = Call("finishTask", <<result>>)
    /\ hookRuns' = <<>>
    /\ hookInput' = <<>>
    /\ UNCHANGED <<now, StaticFrame>>

\* (variant: a call past the last task records a completion as well)
FinishTask_PastTheEnd(result, feedback) ==
    /\ registered = "static"
    /\ IF currentTaskIndex < Len(tasks) /\ ValidationFails(feedback)
       THEN /\ validationFeedback' = feedback
            /\ toolResult' = Returned(FailureText(feedback))
            /\ UNCHANGED <<tasks, currentTaskIndex, completedTasks>>
       ELSE /\ completedTasks' = Append(completedTasks,
                    [task |-> IF currentTaskIndex < Len(tasks)
                              THEN tasks[currentTaskIndex + 1] ELSE Undefined,
                     result |-> result])
            /\ validationFeedback' = Undefined
            /\ currentTaskIndex' = AdvanceCursor(currentTaskIndex)
            /\ toolResult' = Returned(<<"Task completed successfully!">>)
            /\ UNCHANGED tasks
    /\ lastCall' = Call("finishTask", <<result>>)
    /\ hookRuns' = <<>>
    /\ hookInput' = <<>>
    /\ UNCHANGED <<now, StaticFrame>>

\* finishTask({result}); feedback is what currentTask.validation(result) returns
FinishTask(result, feedback) ==
    /\ registered = "static"
    /\ IF currentTaskIndex >= Len(tasks)
       THEN \* state.tasks[currentTaskIndex] is undefined: reading .validation throws
            /\ toolResult' = Thrown(<<"TypeError">>)
            /\ UNCHANGED staticVars
       ELSE IF ValidationFails(feedback)
       THEN /\ validationFeedback' = feedback
            /\ toolResult' = Returned(FailureText(feedback))
            /\ UNCHANGED <<tasks, currentTaskIndex, completedTasks>>
       ELSE /\ completedTasks' = Append(completedTasks,
                    [task |-> tasks[currentTaskIndex + 1], result |-> result])
            /\ validationFeedback' = Undefined
            /\ currentTaskIndex' = AdvanceCursor(currentTaskIndex)
            /\ toolResult' = Returned(SuccessText(AdvanceCursor(currentTaskIndex)))
            /\ UNCHANGED tasks
    /\ lastCall' = Call("finishTask", <<result>>)
    /\ hookRuns' = <<>>
    /\ hookInput' = <<>>
    /\ UNCHANGED <<now, StaticFrame>>

(***************************************************************************)
(* Static task list: the history hook                                      *)
(***************************************************************************)
StaticInstructions ==
    <<"You are working through a task list. Each task must be completed in order.",
      "Use the finishTask tool to submit your result for the current task.",
      "If validation fails, you will receive feedback to correct your result.",
      "Focus only on the current task, but be aware of upcoming tasks.",
      "Previous tasks are summarized below for context.">>

TaskSummaries ==
    [i \in 1..Len(completedTasks) |->
        <<"Task ", i, ": ", completedTasks[i].task, "\nResult: ", completedTasks[i].result>>]

\* (variant: the listing starts at the current task)
UpcomingTasks_FromCurrent ==
    [i \in 1..(Len(tasks) - currentTaskIndex) |->
        <<i + currentTaskIndex, ". ", tasks[currentTaskIndex + i]>>]

UpcomingTasks ==
    [i \in 1..(Len(tasks) - currentTaskIndex - 1) |->
        <<i + currentTaskIndex + 1, ". ", tasks[currentTaskIndex + 1 + i]>>]

\* The (name, content) pairs the hook pushes, in order
StaticHookParts ==
       << <<"system", StaticInstructions>> >>
    \o (IF Len(completedTasks) > 0
        THEN << <<"system", <<"Completed tasks (", Len(completedTasks), "/", Len(tasks),
                               "):\n\n", TaskSummaries>> >> >>
        ELSE <<>>)
    \o (IF currentTaskIndex < Len(tasks) - 1
        THEN << <<"system", <<"Upcoming tasks:\n", UpcomingTasks>> >> >>
        ELSE <<>>)
    \o (IF currentTaskIndex < Len(tasks)
        THEN << <<"user", <<"[Task ", currentTaskIndex + 1, "/", Len(tasks), "] ",
                             tasks[currentTaskIndex + 1]>> >> >>
             \o (IF Truthy(validationFeedback)
                 THEN << <<"system", <<"Previous attempt feedback: ", validationFeedback>> >> >>
                 ELSE <<>>)
        ELSE <<>>)

\* The hook's return value; message k is made by createMessage at time t with
\* random suffix Rnd(seed, k).  The input messages are not read.
StaticHook(msgs, t, seed) ==
    [k \in 1..Len(StaticHookParts) |->
        createMessage(StaticHookParts[k][1], StaticHookParts[k][2], t, Rnd(seed, k))]

\* (variant: the hook clears the feedback once it has shown it)
ApplyStaticHook_ConsumesFeedback(msgs, t, seed) ==
    /\ registered = "static"
    /\ Len(hookRuns) < 2
    /\ hookInput' = msgs
    /\ hookRuns' = Append(hookRuns, StaticHook(msgs, t, seed))
    /\ now' = t
    /\ validationFeedback' = Undefined
    /\ UNCHANGED <<tasks, currentTaskIndex, completedTasks, lastCall, toolResult, StaticFrame>>

\* One application of the hook to hookInput (the same input as the previous
\* application, when there was one since the last state change)
ApplyStaticHook(msgs, t, seed) ==
    /\ registered = "static"
    /\ Len(hookRuns) < 2
    /\ hookInput' = msgs
    /\ hookRuns' = Append(hookRuns, StaticHook(msgs, t, seed))
    /\ now' = t
    /\ UNCHANGED <<staticVars, lastCall, toolResult, StaticFrame>>

(***************************************************************************)
(* Static task list with history compaction: finishTask and the hook       *)
(***************************************************************************)
CompactFrame == <<registered, dynVars, pipeVars, ctxVars, wrapVars, paused, streamVars,
                  subagent, now>>

\* what compactHistory resolves to when the call succeeds: the model's text,
\* which can be empty
CompactedTexts == {"compacted", ""}

\* the record finishTask pushes
CompletedRecord(task, result, compactedHistory) ==
    [task |-> task, result |-> result, compactedHistory |-> compactedHistory]

\* finishTask from the push of the record to its return
RecordAndAdvance(task, result, compactedHistory) ==
    /\ completedTasks' = Append(completedTasks, CompletedRecord(task, result, compactedHistory))
    /\ originalMessages' = <<>>
    /\ validationFeedback' = Undefined
    /\ currentTaskIndex' = currentTaskIndex + 1
    /\ toolResult' = Returned(SuccessText(currentTaskIndex + 1))

\* finishTask({result}) from its start to its return or to the await of
\* compactHistory; feedback is what currentTask.validation(result) returns
FinishTaskEnters(result, feedback) ==
    /\ registered = "static"
    /\ IF currentTaskIndex >= Len(tasks)
       THEN /\ toolResult' = Thrown(<<"TypeError">>)
            /\ UNCHANGED <<staticVars, originalMessages, suspended>>
       ELSE IF ValidationFails(feedback)
       THEN /\ validationFeedback' = feedback
            /\ toolResult' = Returned(FailureText(feedback))
            /\ UNCHANGED <<tasks, currentTaskIndex, completedTasks, originalMessages, suspended>>
       ELSE IF compactionConfig /\ Len(originalMessages) > 0
       THEN \* currentTask and result stay in the suspended execution
            /\ suspended' = Append(suspended,
                                [task |-> tasks[currentTaskIndex + 1], result |-> result,
                                 messages |-> originalMessages])
            /\ UNCHANGED <<staticVars, originalMessages, toolResult>>
       ELSE /\ RecordAndAdvance(tasks[currentTaskIndex + 1], result, Undefined)
            /\ UNCHANGED <<tasks, suspended>>
    /\ lastCall' = Call("finishTask", <<result>>)
    /\ hookRuns' = <<>>
    /\ hookInput' = <<>>
    /\ UNCHANGED <<compactionConfig, CompactFrame>>

\* compactHistory resolves for the i-th suspended execution, which runs on
\* to its return
CompactionSettles(i, compactedHistory) ==
    /\ i \in 1..Len(suspended)
    /\ RecordAndAdvance(suspended[i].task, suspended[i].result, compactedHistory)
    /\ suspended' = SubSeq(suspended, 1, i - 1) \o SubSeq(suspended, i + 1, Len(suspended))
    /\ hookRuns' = <<>>
    /\ hookInput' = <<>>
    /\ UNCHANGED <<tasks, lastCall, compactionConfig, CompactFrame>>

\* the fallback summary of compactHistory's catch block, for the messages it
\* was called with
FallbackSummary(msgs) ==
    IF Len(msgs) = 1
    THEN "Task completed with 1 messages. Compaction failed."
    ELSE "Task completed with several messages. Compaction failed."

\* (variant: the failure of the compaction call rejects finishTask)
CompactionFails_Rejects(i) ==
    /\ i \in 1..Len(suspended)
    /\ toolResult' = Thrown(<<"Error">>)
    /\ suspended' = SubSeq(suspended, 1, i - 1) \o SubSeq(suspended, i + 1, Len(suspended))
    /\ hookRuns' = <<>>
    /\ hookInput' = <<>>
    /\ UNCHANGED <<staticVars, originalMessages, lastCall, compactionConfig, CompactFrame>>

\* model resolution or the compaction call throws in the i-th suspended
\* execution: compactHistory catches and resolves to the fallback summary
CompactionFails(i) ==
    /\ i \in 1..Len(suspended)
    /\ CompactionSettles(i, FallbackSummary(suspended[i].messages))

IsRelevant(m) ==
    /\ m.content # <<"MODE ACTIVE">>
    /\ m.content # StaticInstructions

CompactedSummaries ==
    [i \in 1..Len(completedTasks) |->
        IF Truthy(completedTasks[i].compactedHistory)
        THEN <<"Task ", i, ": ", completedTasks[i].task, "\n",
               completedTasks[i].compactedHistory>>
        ELSE <<"Task ", i, ": ", completedTasks[i].task, "\nResult: ",
               completedTasks[i].result>>]

\* The messages the hook of this version returns
CompactingHook(msgs) ==
       << PlainMsg("system", StaticInstructions) >>
    \o (IF Len(completedTasks) > 0
        THEN << PlainMsg("system", <<"Completed tasks (", Len(completedTasks), "/",
                                     Len(tasks), "):\n\n", CompactedSummaries>>) >>
        ELSE <<>>)
    \o (IF currentTaskIndex < Len(tasks) - 1
        THEN << PlainMsg("system", <<"Upcoming tasks:\n", UpcomingTasks>>) >>
        ELSE <<>>)
    \o (IF currentTaskIndex < Len(tasks)
        THEN << PlainMsg("user", <<"[Task ", currentTaskIndex + 1, "/", Len(tasks), "] ",
                                   tasks[currentTaskIndex + 1]>>) >>
             \o (IF Truthy(validationFeedback)
                 THEN << PlainMsg("system",
                                  <<"Previous attempt feedback: ", validationFeedback>>) >>
                 ELSE <<>>)
        ELSE <<>>)

\* One application of the hook: it stores the relevant input for compaction
\* and returns the rebuilt list
ApplyCompactingHook(msgs) ==
    /\ registered = "static"
    /\ Len(hookRuns) < 2
    /\ IF compactionConfig
       THEN originalMessages' = SelectSeq(msgs, IsRelevant)
       ELSE UNCHANGED originalMessages
    /\ hookInput' = msgs
    /\ hookRuns' = Append(hookRuns, CompactingHook(msgs))
    /\ UNCHANGED <<staticVars, lastCall, toolResult, compactionConfig, suspended, CompactFrame>>

(***************************************************************************)
(* Dynamic task list: the six tools                                        *)
(***************************************************************************)
\* (variant: every task is given the same id)
TaskId_Shared(n) == <<"task-", 1>>

TaskId(n) == <<"task-", n>>
EmptyMap  == [id \in {} |-> Undefined]

\* (variant: the entry stays in the map)
MapDelete_Keeps(m, k) == m

\* Map.set, Map.delete and Map.get
MapSet(m, k, v)  == [x \in DOMAIN m \cup {k} |-> IF x = k THEN v ELSE m[x]]
MapDelete(m, k)  == [x \in DOMAIN m \ {k} |-> m[x]]
Has(m, k)        == k \in DOMAIN m

\* Array.prototype.filter
Filter(seq, Keep(_)) == SelectSeq(seq, Keep)

StatusIs(id, st) == Has(taskMap, id) /\ taskMap[id].status = st

\* (variant: the ids with a status come out in reverse insertion order)
WithStatus_Reversed(st) ==
    LET Keep(id) == StatusIs(id, st)
        kept == Filter(taskOrder, Keep)
    IN  [i \in 1..Len(kept) |-> kept[Len(kept) + 1 - i]]

\* taskOrder.filter(id => tasks.get(id)?.status === st)
WithStatus(st) == LET Keep(id) == StatusIs(id, st) IN Filter(taskOrder, Keep)

\* (variant: the id is numbered after the length of the list)
NewTaskNumber_FromLength == Len(taskOrder) + 1

\* generateTaskId: the number put into the id (state.nextId++)
NewTaskNumber == nextId

ErrorText(parts)   == Returned(<<"x Error: ">> \o parts)
WarningText(parts) == Returned(<<"x Warning: ">> \o parts)
OkText(parts)      == Returned(<<"ok ">> \o parts)
IsError(r)   == r.kind = "return" /\ Len(r.text) > 0 /\ r.text[1] = "x Error: "
IsWarning(r) == r.kind = "return" /\ Len(r.text) > 0 /\ r.text[1] = "x Warning: "
IsOk(r)      == r.kind = "return" /\ Len(r.text) > 0 /\ r.text[1] = "ok "

\* Every tool call is a change the hook applications are counted from; the six
\* tools exist in a run that called defDynamicTaskList
ToolCalled(tool, args) ==
    /\ registered = "dynamic"
    /\ lastCall' = Call(tool, args)
    /\ hookRuns' = <<>>
    /\ hookInput' = <<>>

CreateTask(description, t) ==
    LET taskId == TaskId(NewTaskNumber)
        task   == [id |-> taskId, description |-> description, status |-> "pending",
                   result |-> Undefined, createdAt |-> t, completedAt |-> Undefined]
    IN  /\ nextId' = nextId + 1
        /\ allocated' = Append(allocated, taskId)
        /\ taskMap' = MapSet(taskMap, taskId, task)
        /\ taskOrder' = Append(taskOrder, taskId)
        /\ hasStarted' = TRUE
        /\ createdCount' = createdCount + 1
        /\ toolResult' = OkText(<<"Created task ", taskId, description,
                                  "Total tasks: ", Len(taskOrder) + 1>>)
        /\ now' = t
        /\ ToolCalled("createTask", <<description>>)
        /\ UNCHANGED <<deletedCount, DynFrame>>

\* (variant: a task in progress can be updated as well)
UpdateTask_InProgressToo(taskId, newDescription) ==
    /\ IF ~Has(taskMap, taskId)
       THEN /\ toolResult' = ErrorText(<<"Task ", taskId, " not found.">>)
            /\ UNCHANGED taskMap
       ELSE IF taskMap[taskId].status = "completed"
       THEN /\ toolResult' = ErrorText(<<"Cannot update completed task ", taskId>>)
            /\ UNCHANGED taskMap
       ELSE /\ taskMap' = [taskMap EXCEPT ![taskId].description = newDescription]
            /\ toolResult' = OkText(<<"Updated task ", taskId, "Old: ",
                                      taskMap[taskId].description, "New: ", newDescription>>)
    /\ ToolCalled("updateTask", <<taskId, newDescription>>)
    /\ UNCHANGED <<taskOrder, nextId, hasStarted, allocated, createdCount, deletedCount,
                   now, DynFrame>>

UpdateTask(taskId, newDescription) ==
    /\ IF ~Has(taskMap, taskId)
       THEN /\ toolResult' = ErrorText(<<"Task ", taskId, " not found.">>)
            /\ UNCHANGED taskMap
       ELSE IF taskMap[taskId].status = "completed"
       THEN /\ toolResult' = ErrorText(<<"Cannot update completed task ", taskId>>)
            /\ UNCHANGED taskMap
       ELSE IF taskMap[taskId].status = "in_progress"
       THEN /\ toolResult' = ErrorText(<<"Cannot update in-progress task ", taskId>>)
            /\ UNCHANGED taskMap
       ELSE /\ taskMap' = [taskMap EXCEPT ![taskId].description = newDescription]
            /\ toolResult' = OkText(<<"Updated task ", taskId, "Old: ",
                                      taskMap[taskId].description, "New: ", newDescription>>)
    /\ ToolCalled("updateTask", <<taskId, newDescription>>)
    /\ UNCHANGED <<taskOrder, nextId, hasStarted, allocated, createdCount, deletedCount,
                   now, DynFrame>>

\* (variant: the check for a completed task is missing)
StartTask_NoCompletedCheck(taskId) ==
    /\ IF ~Has(taskMap, taskId)
       THEN /\ toolResult' = ErrorText(<<"Task ", taskId, " not found.">>)
            /\ UNCHANGED taskMap
       ELSE IF taskMap[taskId].status = "in_progress"
       THEN /\ toolResult' = WarningText(<<"Task ", taskId, " is already in progress.">>)
            /\ UNCHANGED taskMap
       ELSE /\ taskMap' = [taskMap EXCEPT ![taskId].status = "in_progress"]
            /\ toolResult' = OkText(<<"Started task ", taskId, taskMap[taskId].description>>)
    /\ ToolCalled("startTask", <<taskId>>)
    /\ UNCHANGED <<taskOrder, nextId, hasStarted, allocated, createdCount, deletedCount,
                   now, DynFrame>>

StartTask(taskId) ==
    /\ IF ~Has(taskMap, taskId)
       THEN /\ toolResult' = ErrorText(<<"Task ", taskId, " not found.">>)
            /\ UNCHANGED taskMap
       ELSE IF taskMap[taskId].status = "completed"
       THEN /\ toolResult' = ErrorText(<<"Task ", taskId, " is already completed.">>)
            /\ UNCHANGED taskMap
       ELSE IF taskMap[taskId].status = "in_progress"
       THEN /\ toolResult' = WarningText(<<"Task ", taskId, " is already in progress.">>)
            /\ UNCHANGED taskMap
       ELSE /\ taskMap' = [taskMap EXCEPT ![taskId].status = "in_progress"]
            /\ toolResult' = OkText(<<"Started task ", taskId, taskMap[taskId].description>>)
    /\ ToolCalled("startTask", <<taskId>>)
    /\ UNCHANGED <<taskOrder, nextId, hasStarted, allocated, createdCount, deletedCount,
                   now, DynFrame>>

\* (variant: only a task in progress can be completed)
CompleteTask_RequiresStart(taskId, result, t) ==
    /\ IF ~Has(taskMap, taskId)
       THEN /\ toolResult' = ErrorText(<<"Task ", taskId, " not found.">>)
            /\ UNCHANGED <<taskMap, now>>
       ELSE IF taskMap[taskId].status = "completed"
       THEN /\ toolResult' = ErrorText(<<"Task ", taskId, " is already completed.">>)
            /\ UNCHANGED <<taskMap, now>>
       ELSE IF taskMap[taskId].status = "pending"
       THEN /\ toolResult' = ErrorText(<<"Task ", taskId, " is not in progress.">>)
            /\ UNCHANGED <<taskMap, now>>
       ELSE /\ taskMap' = [taskMap EXCEPT ![taskId].status = "completed",
                                          ![taskId].result = result,
                                          ![taskId].completedAt = t]
            /\ now' = t
            /\ LET completed == Len(LET Keep(id) == Has(taskMap', id)
                                                    /\ taskMap'[id].status = "completed"
                                    IN Filter(taskOrder, Keep))
                   total     == Len(taskOrder)
               IN  toolResult' =
                     IF completed = total
                     THEN OkText(<<"Task ", taskId, " completed!", result,
                                   "All tasks completed! ", completed, "/", total>>)
                     ELSE OkText(<<"Task ", taskId, " completed!", result,
                                   "Progress: ", completed, "/", total>>)
    /\ ToolCalled("completeTask", <<taskId, result>>)
    /\ UNCHANGED <<taskOrder, nextId, hasStarted, allocated, createdCount, deletedCount,
                   DynFrame>>

\* (variant: the result is written before the status is checked)
CompleteTask_WritesBeforeCheck(taskId, result, t) ==
    /\ IF ~Has(taskMap, taskId)
       THEN /\ toolResult' = ErrorText(<<"Task ", taskId, " not found.">>)
            /\ UNCHANGED <<taskMap, now>>
       ELSE IF taskMap[taskId].status = "completed"
       THEN /\ toolResult' = ErrorText(<<"Task ", taskId, " is already completed.">>)
            /\ taskMap' = [taskMap EXCEPT ![taskId].result = result]
            /\ UNCHANGED now
       ELSE /\ taskMap' = [taskMap EXCEPT ![taskId].status = "completed",
                                          ![taskId].result = result,
                                          ![taskId].completedAt = t]
            /\ now' = t
            /\ toolResult' = OkText(<<"Task ", taskId, " completed!", result>>)
    /\ ToolCalled("completeTask", <<taskId, result>>)
    /\ UNCHANGED <<taskOrder, nextId, hasStarted, allocated, createdCount, deletedCount,
                   DynFrame>>

CompleteTask(taskId, result, t) ==
    /\ IF ~Has(taskMap, taskId)
       THEN /\ toolResult' = ErrorText(<<"Task ", taskId, " not found.">>)
            /\ UNCHANGED <<taskMap, now>>
       ELSE IF taskMap[taskId].status = "completed"
       THEN /\ toolResult' = ErrorText(<<"Task ", taskId, " is already completed.">>)
            /\ UNCHANGED <<taskMap, now>>
       ELSE /\ taskMap' = [taskMap EXCEPT ![taskId].status = "completed",
                                          ![taskId].result = result,
                                          ![taskId].completedAt = t]
            /\ now' = t
            /\ LET completed == Len(LET Keep(id) == Has(taskMap', id)
                                                    /\ taskMap'[id].status = "completed"
                                    IN Filter(taskOrder, Keep))
                   total     == Len(taskOrder)
               IN  toolResult' =
                     IF completed = total
                     THEN OkText(<<"Task ", taskId, " completed!", result,
                                   "All tasks completed! ", completed, "/", total>>)
                     ELSE OkText(<<"Task ", taskId, " completed!", result,
                                   "Progress: ", completed, "/", total>>)
    /\ ToolCalled("completeTask", <<taskId, result>>)
    /\ UNCHANGED <<taskOrder, nextId, hasStarted, allocated, createdCount, deletedCount,
                   DynFrame>>

\* (variant: the id is removed from the map but stays in the order list)
DeleteTask_KeepsOrder(taskId) ==
    /\ IF ~Has(taskMap, taskId)
       THEN /\ toolResult' = ErrorText(<<"Task ", taskId, " not found.">>)
            /\ UNCHANGED <<taskMap, deletedCount>>
       ELSE IF taskMap[taskId].status = "completed"
       THEN /\ toolResult' = ErrorText(<<"Cannot delete completed task ", taskId>>)
            /\ UNCHANGED <<taskMap, deletedCount>>
       ELSE IF taskMap[taskId].status = "in_progress"
       THEN /\ toolResult' = ErrorText(<<"Cannot delete in-progress task ", taskId>>)
            /\ UNCHANGED <<taskMap, deletedCount>>
       ELSE /\ taskMap' = MapDelete(taskMap, taskId)
            /\ deletedCount' = deletedCount + 1
            /\ toolResult' = OkText(<<"Deleted task ", taskId, taskMap[taskId].description,
                                      "Remaining tasks: ", Len(taskOrder)>>)
    /\ ToolCalled("deleteTask", <<taskId>>)
    /\ UNCHANGED <<taskOrder, nextId, hasStarted, allocated, createdCount, now, DynFrame>>

DeleteTask(taskId) ==
    /\ IF ~Has(taskMap, taskId)
       THEN /\ toolResult' = ErrorText(<<"Task ", taskId, " not found.">>)
            /\ UNCHANGED <<taskMap, taskOrder, deletedCount>>
       ELSE IF taskMap[taskId].status = "completed"
       THEN /\ toolResult' = ErrorText(<<"Cannot delete completed task ", taskId>>)
            /\ UNCHANGED <<taskMap, taskOrder, deletedCount>>
       ELSE IF taskMap[taskId].status = "in_progress"
       THEN /\ toolResult' = ErrorText(<<"Cannot delete in-progress task ", taskId>>)
            /\ UNCHANGED <<taskMap, taskOrder, deletedCount>>
       ELSE /\ taskMap' = MapDelete(taskMap, taskId)
            /\ taskOrder' = LET Keep(id) == id # taskId IN Filter(taskOrder, Keep)
            /\ deletedCount' = deletedCount + 1
            /\ toolResult' = OkText(<<"Deleted task ", taskId, taskMap[taskId].description,
                                      "Remaining tasks: ", Len(taskOrder')>>)
    /\ ToolCalled("deleteTask", <<taskId>>)
    /\ UNCHANGED <<nextId, hasStarted, allocated, createdCount, now, DynFrame>>

\* formatTaskList
TaskInfo(id) == <<"[", taskMap[id].id, "] ", taskMap[id].description>>

formatTaskList ==
    IF Len(taskOrder) = 0 THEN <<"No tasks in the list.">>
    ELSE LET completed  == WithStatus("completed")
             inProgress == WithStatus("in_progress")
             \* the else branch of the loop: every status that is neither of the two
             pending    == LET Keep(id) == ~StatusIs(id, "completed")
                                           /\ ~StatusIs(id, "in_progress")
                           IN Filter(taskOrder, Keep)
         IN  <<"Task List Overview: ", Len(completed), "/", Len(taskOrder), " completed">>
             \o (IF Len(completed) > 0
                 THEN << <<"Completed (", Len(completed), "):",
                           [i \in 1..Len(completed) |->
                               <<"v ", TaskInfo(completed[i]), "Result: ",
                                 taskMap[completed[i]].result>>]>> >>
                 ELSE <<>>)
             \o (IF Len(inProgress) > 0
                 THEN << <<"In Progress (", Len(inProgress), "):",
                           [i \in 1..Len(inProgress) |-> <<"> ", TaskInfo(inProgress[i])>>]>> >>
                 ELSE <<>>)
             \o (IF Len(pending) > 0
                 THEN << <<"Pending (", Len(pending), "):",
                           [i \in 1..Len(pending) |-> <<"o ", TaskInfo(pending[i])>>]>> >>
                 ELSE <<>>)

GetTaskList ==
    /\ toolResult' = Returned(formatTaskList)
    /\ ToolCalled("getTaskList", <<>>)
    /\ UNCHANGED <<dynVars, now, DynFrame>>

(***************************************************************************)
(* Dynamic task list: the history hook                                     *)
(***************************************************************************)
DynInstructions ==
    <<"You are working through a dynamic task list. Each task must be completed.",
      "Use completeTask with the task ID and your result to finish each task.",
      "Focus on the current task below. Previous tasks are summarized for context.",
      "Continue until all tasks are completed.">>

\* (variant: the hook adds its instructions to the messages it is handed)
DynamicHook_KeepsInput(msgs) == msgs \o << PlainMsg("system", DynInstructions) >>

\* The hook's return value for the input messages
DynamicHook(msgs) ==
    IF ~hasStarted \/ Len(taskOrder) = 0 THEN msgs
    ELSE
    LET completedIds == WithStatus("completed")
        completed    == Len(completedIds)
        total        == Len(taskOrder)
        allCompleted == completed = total
        pending      == WithStatus("pending")
        inProgress   == WithStatus("in_progress")
        remainingPending == SubSeq(pending, (IF Len(inProgress) = 0 THEN 2 ELSE 1), Len(pending))
        current      == IF Len(inProgress) > 0 THEN <<inProgress[1]>>
                        ELSE IF Len(pending) > 0 THEN <<pending[1]>> ELSE <<>>
    IN     << PlainMsg("system", DynInstructions) >>
        \o (IF completed > 0
            THEN << PlainMsg("system",
                      <<"Completed tasks (", completed, "/", total, "):\n\n",
                        [i \in 1..completed |->
                           <<"v [", taskMap[completedIds[i]].id, "] ",
                             taskMap[completedIds[i]].description, "Result: ",
                             taskMap[completedIds[i]].result>>]>>) >>
            ELSE <<>>)
        \o (IF ~allCompleted /\ Len(remainingPending) > 0
            THEN << PlainMsg("system",
                      <<"Upcoming tasks:\n",
                        [i \in 1..Len(remainingPending) |->
                           <<taskMap[remainingPending[i]].id, ". ",
                             taskMap[remainingPending[i]].description>>]>>) >>
            ELSE <<>>)
        \o (IF ~allCompleted
            THEN IF current # <<>>
                 THEN (IF Len(inProgress) > 0
                       THEN << PlainMsg("system",
                                 <<"Task ", taskMap[current[1]].id,
                                   " is in progress. Complete it using: completeTask",
                                   taskMap[current[1]].id>>) >>
                       ELSE <<>>)
                      \o << PlainMsg("user",
                              <<"[", taskMap[current[1]].id, "] ",
                                taskMap[current[1]].description>>) >>
                 ELSE <<>>
            ELSE << PlainMsg("user",
                      <<"All ", total, " tasks completed successfully. Provide a brief summary.">>) >>)

\* One application of the hook
ApplyDynamicHook(msgs) ==
    /\ registered = "dynamic"
    /\ Len(hookRuns) < 2
    /\ hookInput' = msgs
    /\ hookRuns' = Append(hookRuns, DynamicHook(msgs))
    /\ UNCHANGED <<dynVars, lastCall, toolResult, now, DynFrame>>

(***************************************************************************)
(* Hook pipeline: applyMessageHooks                                        *)
(***************************************************************************)
\* Hooks a caller registers (examples/hooks.ts) and the dynamic task-list hook
CallerHooks == {"prepend", "tag", "summary", "filter", "noop"}

\* The value a hook call evaluates to: a message array or undefined
ReturnsMessages(msgs) == [defined |-> TRUE, value |-> msgs]
ReturnsUndefined == [defined |-> FALSE, value |-> <<>>]

\* What a hook returns for the messages it is handed
HookResult(hook, msgs) ==
    CASE hook = "prepend" ->
            ReturnsMessages(
               << PlainMsg("system", <<"Always be enthusiastic in your responses!">>) >>
               \o msgs)
      [] hook = "tag" ->
            ReturnsMessages(
               [i \in 1..Len(msgs) |->
                   PlainMsg(msgs[i].name, <<"[", msgs[i].name, "] ">> \o msgs[i].content)])
      [] hook = "summary" ->
            ReturnsMessages(
               Append(msgs, PlainMsg("system", <<"Summary: Conversation has ", Len(msgs),
                                                  " messages.">>)))
      [] hook = "filter" ->
            LET Keep(m) == m.name # "assistant"
            IN  ReturnsMessages(SelectSeq(msgs, Keep))
      [] hook = "noop" -> ReturnsUndefined
      [] hook = "dynamic" -> ReturnsMessages(DynamicHook(msgs))
      [] hook = "static" -> ReturnsMessages(CompactingHook(msgs))

\* (variant: every hook is handed the original messages)
AfterHook_FromOriginal(hook, cur, original) ==
    LET result == HookResult(hook, original)
    IN  IF result.defined THEN result.value ELSE cur

\* One pass of the loop body: the hook is called with the accumulated messages
\* and its result replaces them unless it is undefined
AfterHook(hook, cur, original) ==
    LET result == HookResult(hook, cur)
    IN  IF result.defined THEN result.value ELSE cur

\* applyMessageHooks(msgs, hs): the value the loop returns
\* (variant: the hooks are not called)
applyMessageHooks_Skipped(msgs, hs) == msgs

RECURSIVE applyMessageHooks(_, _)
applyMessageHooks(msgs, hs) ==
    IF hs = <<>> THEN msgs
    ELSE applyMessageHooks(AfterHook(Head(hs), msgs, msgs), Tail(hs))

\* let currentMessages = messages
HookLoopStart ==
    /\ foldIndex = 0
    /\ hookCalls = <<>>
    /\ foldIndex' = 1
    /\ foldMessages' = messages
    /\ UNCHANGED <<messages, hooks, hookCalls, PipeFrame>>

\* one iteration of for (const hook of hooks)
HookLoopStep ==
    /\ foldIndex >= 1
    /\ foldIndex <= Len(hooks)
    /\ hookCalls' = Append(hookCalls,
                      [hook   |-> foldIndex,
                       input  |-> foldMessages,
                       output |-> HookResult(hooks[foldIndex], foldMessages)])
    /\ foldMessages' = AfterHook(hooks[foldIndex], foldMessages, messages)
    /\ foldIndex' = foldIndex + 1
    /\ UNCHANGED <<messages, hooks, PipeFrame>>

\* return currentMessages
HookLoopReturned == foldIndex = Len(hooks) + 1

(***************************************************************************)
(* executeAgent: generation with validation retries                        *)
(***************************************************************************)
maxValidationRetries == 3
maxSteps == 10
promptResult == "PROMPT"

\* A response text is a sequence of tokens: "w" is a word of prose, "{" and
\* "}" are braces, "ok" and "bad" are the bodies of an object that satisfies
\* and that violates the schema, "num" is a JSON scalar.
IsJson(text) == text \in { <<"{", "ok", "}">>, <<"{", "bad", "}">>, <<"num">> }

\* JSON.parse
JSONparse(text) ==
    IF IsJson(text)
    THEN [ok |-> TRUE, value |-> IF Len(text) = 1 THEN text[1] ELSE text[2]]
    ELSE [ok |-> FALSE, value |-> "SyntaxError"]

\* (variant: no object is extracted from surrounding text)
jsonMatch_Never(text) == [matched |-> FALSE, value |-> <<>>]

\* finalText.match(/\{[\s\S]*\}/): from the first opening brace to the last
\* closing brace after it
jsonMatch(text) ==
    LET opens  == {i \in 1..Len(text) : text[i] = "{"}
        first  == CHOOSE i \in opens : \A j \in opens : i <= j
        closes == {i \in 1..Len(text) : text[i] = "}" /\ i > first}
        last   == CHOOSE i \in closes : \A j \in closes : i >= j
    IN  IF opens # {} /\ closes # {}
        THEN [matched |-> TRUE, value |-> SubSeq(text, first, last)]
        ELSE [matched |-> FALSE, value |-> <<>>]

\* formatValidationError
formatValidationError(issue) ==
    <<"Your previous response did not match the required schema. Please fix the following validation errors:",
      issue, "Please provide a corrected response that addresses all these errors.">>

\* The try block: parse, extract, validate.  The result is the validated
\* value, or the error that was thrown
ParseAndValidate(finalText) ==
    LET direct    == JSONparse(finalText)
        m         == jsonMatch(finalText)
        extracted == JSONparse(m.value)
        parsed    == IF direct.ok THEN direct
                     ELSE IF m.matched THEN extracted
                     ELSE [ok |-> FALSE, value |-> "Response does not contain valid JSON"]
    IN  IF ~parsed.ok
        THEN [ok |-> FALSE, zod |-> FALSE, value |-> parsed.value]
        ELSE IF parsed.value = "ok"
        THEN [ok |-> TRUE, zod |-> FALSE, value |-> parsed.value]
        ELSE [ok |-> FALSE, zod |-> TRUE, value |-> <<"root: ", parsed.value>>]

\* validationError
ValidationErrorText(v) ==
    IF v.zod THEN formatValidationError(v.value) ELSE <<v.value>>

\* (variant: the feedback does not carry the error of the attempt)
RetryFeedback_Generic(v) ==
    <<"Please provide a valid JSON response matching the required schema.">>

\* the content of the feedback message of a retry
RetryFeedback(v) ==
    IF v.zod THEN formatValidationError(v.value)
    ELSE <<"Your response could not be parsed as valid JSON. Error: ", v.value,
           "Please provide a valid JSON response matching the required schema.">>

buildConversationMessages(msgs, hs, prompt) ==
    Wire(applyMessageHooks(msgs, hs)) \o << <<"user", <<prompt>>>> >>

\* (variant: the last retry is recognised one attempt late)
IsLastRetry_OneLate(a) == a = maxValidationRetries + 1

\* attempt === maxValidationRetries
IsLastRetry(a) == a = maxValidationRetries

\* The caller builds the messages and enters executeAgent
ExecuteAgent ==
    /\ pc = "idle"
    /\ transformedMessages' = applyMessageHooks(messages, hooks)
    /\ currentMessages' = buildConversationMessages(messages, hooks, promptResult)
    /\ attempt' = 0
    /\ pc' = "call"
    /\ UNCHANGED <<responseSchema, steps, providerCalls, validationAttempts, outcome>>
    /\ UNCHANGED EngineFrame

\* (variant: a new call starts with an empty log)
StreamText_ClearsLog ==
    /\ pc = "call"
    /\ providerCalls' = Append(providerCalls, currentMessages)
    /\ steps' = 0
    /\ pc' = "generating"
    /\ validationAttempts' = <<>>
    /\ UNCHANGED <<responseSchema, attempt, currentMessages, transformedMessages, outcome>>
    /\ UNCHANGED EngineFrame

\* await streamText({ messages: currentMessages, ..., maxSteps: 10 })
StreamText ==
    /\ pc = "call"
    /\ providerCalls' = Append(providerCalls, currentMessages)
    /\ steps' = 0
    /\ pc' = "generating"
    /\ UNCHANGED <<responseSchema, attempt, currentMessages, transformedMessages,
                   validationAttempts, outcome>>
    /\ UNCHANGED EngineFrame

\* A generation of the current call that ends in a tool call; the tool's own
\* effect is conjoined by the specification
ModelCallsTool ==
    /\ pc = "generating"
    /\ steps < maxSteps
    /\ steps' = steps + 1
    /\ UNCHANGED <<responseSchema, pc, attempt, providerCalls, currentMessages,
                   transformedMessages, validationAttempts, outcome>>

\* The rest of the loop body once the call's text is complete
AfterFinalText(finalText) ==
    LET v == ParseAndValidate(finalText)
        validationError == ValidationErrorText(v)
        retryMessages == applyMessageHooks(transformedMessages, hooks)
    IN  IF ~responseSchema
        THEN /\ outcome' = Returned(finalText)
             /\ pc' = "done"
             /\ UNCHANGED <<attempt, currentMessages, validationAttempts>>
        ELSE IF v.ok
        THEN /\ outcome' = Returned(v.value)
             /\ pc' = "done"
             /\ UNCHANGED <<attempt, currentMessages, validationAttempts>>
        ELSE /\ validationAttempts' =
                   Append(validationAttempts,
                          [attempt |-> attempt + 1, response |-> finalText,
                           error |-> validationError])
             /\ IF IsLastRetry(attempt)
                THEN /\ outcome' = Thrown(<<"Failed to get valid response after ",
                                            maxValidationRetries + 1, " attempts. ",
                                            "Last error: ", validationError>>)
                     /\ pc' = "done"
                     /\ UNCHANGED <<attempt, currentMessages>>
                ELSE /\ currentMessages' =
                           Wire(retryMessages)
                           \o << <<"user", <<promptResult>>>>,
                                 <<"assistant", finalText>>,
                                 <<"user", RetryFeedback(v)>> >>
                     /\ attempt' = attempt + 1
                     /\ IF attempt + 1 <= maxValidationRetries
                        THEN pc' = "call" /\ UNCHANGED outcome
                        ELSE pc' = "done" /\ outcome' = Returned(Undefined)

\* (variant: the text of the call is lost)
ModelAnswers_TextLost(finalText) ==
    /\ pc = "generating"
    /\ steps < maxSteps
    /\ steps' = steps + 1
    /\ AfterFinalText(<<>>)
    /\ UNCHANGED <<responseSchema, providerCalls, transformedMessages>>
    /\ UNCHANGED EngineFrame

\* The model ends the call with a text
ModelAnswers(finalText) ==
    /\ pc = "generating"
    /\ steps < maxSteps
    /\ steps' = steps + 1
    /\ AfterFinalText(finalText)
    /\ UNCHANGED <<responseSchema, providerCalls, transformedMessages>>
    /\ UNCHANGED EngineFrame

\* The call used all its generations on tool calls: its text is empty
StepsExhausted ==
    /\ pc = "generating"
    /\ steps = maxSteps
    /\ AfterFinalText(<<>>)
    /\ UNCHANGED <<responseSchema, steps, providerCalls, transformedMessages>>
    /\ UNCHANGED EngineFrame

(***************************************************************************)
(* convertToolsToAIFormat: the wrapper around every tool executor          *)
(***************************************************************************)
\* What an executor can throw: an Error with a message, or a plain string
ThrownValues == { [isError |-> TRUE,  value |-> "boom"],
                  [isError |-> TRUE,  value |-> ""],
                  [isError |-> FALSE, value |-> "stopped"] }

\* error instanceof Error ? error.message : String(error)
ErrorMessage(thrown) == thrown.value

WrapperFrame == <<registered, staticVars, dynVars, lastCall, toolResult, pipeVars, hookVars,
                  engVars, ctxVars, paused, compactVars, streamVars, subagent>>

\* execute(args) up to the await: the record is pushed, then the executor is
\* called
WrapperCalled(tool, args) ==
    /\ toolCalls' = Append(toolCalls, [tool |-> tool, args |-> args,
                                       result |-> Undefined, error |-> Undefined])
    /\ inFlight' = inFlight \cup {Len(toolCalls) + 1}
    /\ callOutcomes' = Append(callOutcomes, NoResult)
    /\ UNCHANGED WrapperFrame

\* the try branch after the await
ExecutorReturns(i, value) ==
    /\ i \in inFlight
    /\ toolCalls' = [toolCalls EXCEPT ![i].result = value]
    /\ inFlight' = inFlight \ {i}
    /\ callOutcomes' = [callOutcomes EXCEPT ![i] = Returned(value)]
    /\ UNCHANGED WrapperFrame

\* (variant: the error is recorded and not thrown again)
ExecutorThrows_Swallowed(i, thrown) ==
    /\ i \in inFlight
    /\ toolCalls' = [toolCalls EXCEPT ![i].error = ErrorMessage(thrown)]
    /\ inFlight' = inFlight \ {i}
    /\ callOutcomes' = [callOutcomes EXCEPT ![i] = Returned(Undefined)]
    /\ UNCHANGED WrapperFrame

\* the catch branch
ExecutorThrows(i, thrown) ==
    /\ i \in inFlight
    /\ toolCalls' = [toolCalls EXCEPT ![i].error = ErrorMessage(thrown)]
    /\ inFlight' = inFlight \ {i}
    /\ callOutcomes' = [callOutcomes EXCEPT ![i] = Thrown(thrown)]
    /\ UNCHANGED WrapperFrame

(***************************************************************************)
(* createContext: registration of tools, hooks, messages and task lists    *)
(***************************************************************************)
ContextFrame == <<lastCall, toolResult, dynVars, hookVars, engVars, wrapVars, paused,
                  foldIndex, foldMessages, hookCalls, compactVars, streamVars, subagent>>
VariableFrame == <<variables, variableInstructionsAdded>>

\* the system message def adds on first use
VariableInstructions == PlainMsg("system", <<"VARIABLE INSTRUCTIONS">>)

\* (variant: the flag is not set after the message is added)
Def_FlagNotSet(variableName, content) ==
    /\ variables' = MapSet(variables, variableName, content)
    /\ IF ~variableInstructionsAdded
       THEN messages' = Append(messages, VariableInstructions)
       ELSE UNCHANGED messages
    /\ UNCHANGED variableInstructionsAdded
    /\ defResult' = Returned(Undefined)
    /\ UNCHANGED <<registered, staticVars, hooks, tools, ContextFrame>>

\* def(variableName, content)
Def(variableName, content) ==
    /\ variables' = MapSet(variables, variableName, content)
    /\ IF ~variableInstructionsAdded
       THEN /\ messages' = Append(messages, VariableInstructions)
            /\ variableInstructionsAdded' = TRUE
       ELSE UNCHANGED <<messages, variableInstructionsAdded>>
    /\ defResult' = Returned(Undefined)
    /\ UNCHANGED <<registered, staticVars, hooks, tools, ContextFrame>>

\* defTool(name, description, schema, fn)
DefTool(name, fn) ==
    /\ tools' = Append(tools, [name |-> name, execute |-> fn])
    /\ defResult' = Returned(Undefined)
    /\ UNCHANGED <<registered, staticVars, messages, hooks, ContextFrame, VariableFrame>>

\* defHook(hook)
DefHook(hook) ==
    /\ hooks' = Append(hooks, hook)
    /\ defResult' = Returned(Undefined)
    /\ UNCHANGED <<registered, staticVars, messages, tools, ContextFrame, VariableFrame>>

\* defMessage(name, content)
DefMessage(name, content) ==
    /\ messages' = Append(messages, PlainMsg(name, content))
    /\ defResult' = Returned(Undefined)
    /\ UNCHANGED <<registered, staticVars, hooks, tools, ContextFrame, VariableFrame>>

\* (variant: the empty list is detected after the registrations)
DefTaskList_ChecksLast(taskArray) ==
    /\ tools' = Append(tools, [name |-> "finishTask", execute |-> "finishTask"])
    /\ hooks' = Append(hooks, "static")
    /\ messages' = Append(messages, PlainMsg("system",
                      <<"TASK LIST MODE ACTIVE", "Total tasks: ", Len(taskArray)>>))
    /\ IF Len(taskArray) = 0
       THEN /\ defResult' = Thrown(<<"Task list must contain at least one task">>)
            /\ UNCHANGED <<registered, staticVars>>
       ELSE /\ registered' = "static"
            /\ tasks' = taskArray
            /\ currentTaskIndex' = 0
            /\ completedTasks' = <<>>
            /\ validationFeedback' = Undefined
            /\ defResult' = Returned(Undefined)
    /\ UNCHANGED <<ContextFrame, VariableFrame>>

\* defTaskList(ctx, tasks)
DefTaskList(taskArray) ==
    /\ IF Len(taskArray) = 0
       THEN /\ defResult' = Thrown(<<"Task list must contain at least one task">>)
            /\ UNCHANGED <<registered, staticVars, tools, hooks, messages>>
       ELSE /\ registered' = "static"
            /\ tasks' = taskArray
            /\ currentTaskIndex' = 0
            /\ completedTasks' = <<>>
            /\ validationFeedback' = Undefined
            /\ tools' = Append(tools, [name |-> "finishTask", execute |-> "finishTask"])
            /\ hooks' = Append(hooks, "static")
            /\ messages' = Append(messages, PlainMsg("system",
                              <<"TASK LIST MODE ACTIVE", "Total tasks: ", Len(taskArray)>>))
            /\ defResult' = Returned(Undefined)
    /\ UNCHANGED <<ContextFrame, VariableFrame>>

\* convertToolsToAIFormat: aiTools[t.name] is assigned in registration order,
\* so a name maps to its last registration
aiTools ==
    [n \in {tools[i].name : i \in 1..Len(tools)} |->
        LET last == CHOOSE i \in 1..Len(tools) :
                       /\ tools[i].name = n
                       /\ \A j \in 1..Len(tools) : tools[j].name = n => j <= i
        IN  tools[last].execute]

(***************************************************************************)
(* ExecutionControl of the interactive run                                 *)
(***************************************************************************)
ControlFrame == <<registered, staticVars, dynVars, lastCall, toolResult, pipeVars, hookVars,
                  engVars, ctxVars, wrapVars, compactVars, streamVars, subagent>>

\* control.pause()
Pause ==
    /\ paused' = TRUE
    /\ UNCHANGED ControlFrame

\* control.resume()
Resume ==
    /\ paused' = FALSE
    /\ UNCHANGED ControlFrame

(***************************************************************************)
(* Initial values: each component right after its registration             *)
(***************************************************************************)
StaticRegistered ==
    /\ currentTaskIndex = 0
    /\ completedTasks = <<>>
    /\ validationFeedback = Undefined

DynRegistered ==
    /\ taskMap = EmptyMap
    /\ taskOrder = <<>>
    /\ nextId = 1
    /\ hasStarted = FALSE
    /\ allocated = <<>>
    /\ createdCount = 0
    /\ deletedCount = 0

PipeIdle ==
    /\ messages = <<>>
    /\ hooks = <<>>
    /\ foldIndex = 0
    /\ foldMessages = <<>>
    /\ hookCalls = <<>>

AuxIdle ==
    /\ tools = <<>>
    /\ defResult = NoResult
    /\ variables = EmptyMap
    /\ variableInstructionsAdded = FALSE
    /\ toolCalls = <<>>
    /\ inFlight = {}
    /\ callOutcomes = <<>>
    /\ paused = FALSE
    /\ originalMessages = <<>>
    /\ suspended = <<>>
    /\ streamingText = <<>>
    /\ received = [call |-> 0, chunks |-> <<>>]
    /\ subagent = [call |-> 0, runs |-> 0, messages |-> <<>>, tools |-> <<>>, hooks |-> <<>>,
                   toolCalls |-> <<>>, validationAttempts |-> <<>>]

EngineIdle ==
    /\ pc = "idle"
    /\ attempt = 0
    /\ steps = 0
    /\ providerCalls = <<>>
    /\ currentMessages = <<>>
    /\ transformedMessages = <<>>
    /\ validationAttempts = <<>>
    /\ outcome = NoResult

HooksIdle ==
    /\ hookInput = <<>>
    /\ hookRuns = <<>>
    /\ now = 0

(***************************************************************************)
(* Specification of the static task list                                   *)
(***************************************************************************)
InitStatic ==
    /\ registered = "static"
    /\ tasks \in [1..NTasks -> Prompts]
    /\ StaticRegistered
    /\ DynRegistered
    /\ HooksIdle
    /\ PipeIdle
    /\ EngineIdle
    /\ AuxIdle
    /\ compactionConfig = FALSE
    /\ responseSchema = FALSE
    /\ lastCall = NoCall
    /\ toolResult = NoResult

NextStatic ==
    \/ \E result \in Results, feedback \in FeedbackVals :
          FinishTask(result, feedback) /\ UNCHANGED engVars
    \/ \E msgs \in InputMsgs, t \in LaterClock, seed \in Seeds :
          /\ (hookRuns # <<>> => msgs = hookInput)
          /\ ApplyStaticHook(msgs, t, seed)
          /\ UNCHANGED engVars

SpecStatic == InitStatic /\ [][NextStatic]_vars

(***************************************************************************)
(* Specification of the static task list with compaction                   *)
(***************************************************************************)
CompactionTasks == [i \in 1..NTasks |-> <<"prompt", i>>]

InitCompaction ==
    /\ registered = "static"
    /\ tasks = CompactionTasks
    /\ StaticRegistered
    /\ DynRegistered
    /\ HooksIdle
    /\ PipeIdle
    /\ EngineIdle
    /\ AuxIdle
    /\ compactionConfig \in BOOLEAN
    /\ responseSchema = FALSE
    /\ lastCall = NoCall
    /\ toolResult = NoResult

NextCompaction ==
    \/ \E result \in {"r1"}, feedback \in {Undefined, "fb1"} :
          /\ Len(suspended) < MaxOverlap
          /\ FinishTaskEnters(result, feedback)
          /\ UNCHANGED engVars
    \/ \E i \in 1..MaxOverlap, compactedHistory \in CompactedTexts :
          CompactionSettles(i, compactedHistory) /\ UNCHANGED engVars
    \/ \E i \in 1..MaxOverlap : CompactionFails(i) /\ UNCHANGED engVars
    \/ \E msgs \in InputMsgs :
          /\ (hookRuns # <<>> => msgs = hookInput)
          /\ ApplyCompactingHook(msgs)
          /\ UNCHANGED engVars

SpecCompaction == InitCompaction /\ [][NextCompaction]_vars

(***************************************************************************)
(* Specification of the dynamic task list                                  *)
(***************************************************************************)
Descriptions == {"A", "B"}
\* ids a model may pass: every id that can exist, and one that never does
CallableIds  == {TaskId(n) : n \in 1..MaxCreates} \cup {<<"no-such-task", 0>>}

\* The timestamps createdAt and completedAt are written and never read: the
\* advance of the clock within the run is not followed here.
InitDyn ==
    /\ registered = "dynamic"
    /\ tasks = <<>>
    /\ StaticRegistered
    /\ DynRegistered
    /\ HooksIdle
    /\ PipeIdle
    /\ EngineIdle
    /\ AuxIdle
    /\ compactionConfig = FALSE
    /\ responseSchema = FALSE
    /\ lastCall = NoCall
    /\ toolResult = NoResult

NextDyn ==
    \/ \E description \in Descriptions :
          nextId <= MaxCreates /\ CreateTask(description, now) /\ UNCHANGED engVars
    \/ \E taskId \in CallableIds, newDescription \in Descriptions :
          UpdateTask(taskId, newDescription) /\ UNCHANGED engVars
    \/ \E taskId \in CallableIds : StartTask(taskId) /\ UNCHANGED engVars
    \/ \E taskId \in CallableIds, result \in Results :
          CompleteTask(taskId, result, now) /\ UNCHANGED engVars
    \/ \E taskId \in CallableIds : DeleteTask(taskId) /\ UNCHANGED engVars
    \/ GetTaskList /\ UNCHANGED engVars
    \/ \E msgs \in InputMsgs :
          /\ (hookRuns # <<>> => msgs = hookInput)
          /\ ApplyDynamicHook(msgs)
          /\ UNCHANGED engVars

SpecDyn == InitDyn /\ [][NextDyn]_vars

(***************************************************************************)
(* Specification of a run that registered either task list                 *)
(***************************************************************************)
InitLists == InitStatic \/ InitDyn

NextLists == NextStatic \/ NextDyn

SpecLists == InitLists /\ [][NextLists]_vars

(***************************************************************************)
(* Specification of the hook pipeline                                      *)
(***************************************************************************)
RECURSIVE SeqsUpTo(_, _)
SeqsUpTo(S, n) ==
    IF n = 0 THEN { <<>> }
    ELSE LET shorter == SeqsUpTo(S, n - 1)
         IN  shorter \cup { Append(q, x) : q \in shorter, x \in S }

InitHooks ==
    /\ registered = "none"
    /\ tasks = <<>>
    /\ StaticRegistered
    /\ DynRegistered
    /\ HooksIdle
    /\ EngineIdle
    /\ AuxIdle
    /\ compactionConfig = FALSE
    /\ responseSchema = FALSE
    /\ lastCall = NoCall
    /\ toolResult = NoResult
    /\ messages \in InputMsgs
    /\ hooks \in SeqsUpTo(CallerHooks, MaxHooks)
    /\ foldIndex = 0
    /\ foldMessages = <<>>
    /\ hookCalls = <<>>

NextHooks ==
    \/ HookLoopStart /\ UNCHANGED engVars
    \/ HookLoopStep /\ UNCHANGED engVars

SpecHooks == InitHooks /\ [][NextHooks]_vars

(***************************************************************************)
(* Specification of a run without tools: generation and validation retries *)
(***************************************************************************)
ResponseTexts == { <<"w">>, <<"{", "w">>, <<"num">>, <<"{", "bad", "}">>,
                   <<"{", "ok", "}">>,
                   <<"{", "ok", "}", "w", "{", "ok", "}">>,
                   <<"w", "{", "ok", "}", "w">> }

InitRetry ==
    /\ registered = "none"
    /\ tasks = <<>>
    /\ StaticRegistered
    /\ DynRegistered
    /\ HooksIdle
    /\ EngineIdle
    /\ AuxIdle
    /\ compactionConfig = FALSE
    /\ responseSchema \in BOOLEAN
    /\ lastCall = NoCall
    /\ toolResult = NoResult
    /\ messages \in InputMsgs
    /\ hooks \in { <<>>, <<"summary">> }
    /\ foldIndex = 0
    /\ foldMessages = <<>>
    /\ hookCalls = <<>>

NextRetry ==
    \/ ExecuteAgent
    \/ StreamText
    \/ \E finalText \in ResponseTexts : ModelAnswers(finalText)

SpecRetry == InitRetry /\ [][NextRetry]_vars

(***************************************************************************)
(* Specification of an interactive run: the retry loop and the controls    *)
(***************************************************************************)
NextInteractive ==
    \/ ExecuteAgent
    \/ StreamText
    \/ \E finalText \in ResponseTexts : ModelAnswers(finalText)
    \/ Pause
    \/ Resume

SpecInteractive == InitRetry /\ [][NextInteractive]_vars

(***************************************************************************)
(* Specification of a run with the dynamic task list                       *)
(***************************************************************************)
RunDescriptions == {"A"}
RunResults == {"r1"}
RunIds == {TaskId(n) : n \in 1..RunCreates} \cup {<<"no-such-task", 0>>}
RunTexts == { <<"w">>, <<"{", "ok", "}">> }

InitRun ==
    /\ registered = "dynamic"
    /\ tasks = <<>>
    /\ StaticRegistered
    /\ DynRegistered
    /\ HooksIdle
    /\ EngineIdle
    /\ AuxIdle
    /\ compactionConfig = FALSE
    /\ responseSchema \in BOOLEAN
    /\ lastCall = NoCall
    /\ toolResult = NoResult
    /\ messages = << PlainMsg("system", <<"DYNAMIC TASK LIST MODE ACTIVE">>) >>
    /\ hooks = << "dynamic" >>
    /\ foldIndex = 0
    /\ foldMessages = <<>>
    /\ hookCalls = <<>>

NextRun ==
    \/ ExecuteAgent
    \/ StreamText
    \/ \E finalText \in RunTexts : ModelAnswers(finalText)
    \/ StepsExhausted
    \/ \E description \in RunDescriptions :
          nextId <= RunCreates /\ ModelCallsTool /\ CreateTask(description, now)
    \/ \E taskId \in RunIds, newDescription \in RunDescriptions :
          ModelCallsTool /\ UpdateTask(taskId, newDescription)
    \/ \E taskId \in RunIds : ModelCallsTool /\ StartTask(taskId)
    \/ \E taskId \in RunIds, result \in RunResults :
          ModelCallsTool /\ CompleteTask(taskId, result, now)
    \/ \E taskId \in RunIds : ModelCallsTool /\ DeleteTask(taskId)
    \/ ModelCallsTool /\ GetTaskList

SpecRun == InitRun /\ [][NextRun]_vars

(***************************************************************************)
(* Specification of a run with the static task list                        *)
(***************************************************************************)
InitStaticRun ==
    /\ registered = "static"
    /\ tasks = CompactionTasks
    /\ StaticRegistered
    /\ DynRegistered
    /\ HooksIdle
    /\ EngineIdle
    /\ AuxIdle
    /\ compactionConfig = FALSE
    /\ responseSchema \in BOOLEAN
    /\ lastCall = NoCall
    /\ toolResult = NoResult
    /\ messages = << PlainMsg("system", <<"MODE ACTIVE">>) >>
    /\ hooks = << "static" >>
    /\ foldIndex = 0
    /\ foldMessages = <<>>
    /\ hookCalls = <<>>

NextStaticRun ==
    \/ ExecuteAgent
    \/ StreamText
    \/ \E finalText \in RunTexts : ModelAnswers(finalText)
    \/ StepsExhausted
    \/ \E result \in RunResults, feedback \in {Undefined, "fb1"} :
          ModelCallsTool /\ FinishTaskEnters(result, feedback)

SpecStaticRun == InitStaticRun /\ [][NextStaticRun]_vars

(***************************************************************************)
(* Specification of the dynamic task list with a longer list, one          *)
(* description and one result: creation, status changes and deletion       *)
(***************************************************************************)
DeleteIds == {TaskId(n) : n \in 1..DeleteCreates} \cup {<<"no-such-task", 0>>}

NextDelete ==
    \/ \E description \in RunDescriptions :
          nextId <= DeleteCreates /\ CreateTask(description, now) /\ UNCHANGED engVars
    \/ \E taskId \in DeleteIds : StartTask(taskId) /\ UNCHANGED engVars
    \/ \E taskId \in DeleteIds, result \in RunResults :
          CompleteTask(taskId, result, now) /\ UNCHANGED engVars
    \/ \E taskId \in DeleteIds : DeleteTask(taskId) /\ UNCHANGED engVars

SpecDelete == InitDyn /\ [][NextDelete]_vars

(***************************************************************************)
(* Specification of the tool wrapper: calls may overlap                    *)
(***************************************************************************)
ToolNames == {"t1", "t2"}
ToolArgs == {"a"}
ReturnValues == {Undefined, "v"}

\* a context with nothing registered and no run started
InitTools ==
    /\ registered = "none"
    /\ tasks = <<>>
    /\ StaticRegistered
    /\ DynRegistered
    /\ HooksIdle
    /\ PipeIdle
    /\ EngineIdle
    /\ AuxIdle
    /\ compactionConfig = FALSE
    /\ responseSchema = FALSE
    /\ lastCall = NoCall
    /\ toolResult = NoResult

NextTools ==
    \/ \E tool \in ToolNames, args \in ToolArgs :
          Len(toolCalls) < MaxToolCalls /\ WrapperCalled(tool, args)
    \/ \E i \in 1..MaxToolCalls, value \in ReturnValues : ExecutorReturns(i, value)
    \/ \E i \in 1..MaxToolCalls, thrown \in ThrownValues : ExecutorThrows(i, thrown)

SpecTools == InitTools /\ [][NextTools]_vars

(***************************************************************************)
(* Specification of the registrations a prompt function makes              *)
(***************************************************************************)
DefNames == {"search", "finishTask"}
Executors == {"f1", "f2"}
TaskArrays == { <<>>, <<"A">>, <<"A", "B">> }

NextContext ==
    \/ \E name \in DefNames, fn \in Executors :
          Len(tools) < MaxDefs /\ DefTool(name, fn)
    \/ \E hook \in {"prepend", "noop"} :
          Len(hooks) < MaxDefs /\ DefHook(hook)
    \/ \E content \in {"hello"} :
          Len(messages) < MaxDefs /\ DefMessage("user", <<content>>)
    \/ \E taskArray \in TaskArrays :
          /\ registered = "none"
          /\ Len(tools) < MaxDefs /\ Len(hooks) < MaxDefs /\ Len(messages) < MaxDefs
          /\ DefTaskList(taskArray)

SpecContext == InitTools /\ [][NextContext]_vars

(***************************************************************************)
(* Specification of the messages and variables a prompt function declares  *)
(***************************************************************************)
VariableNames == {"X", "Y"}
VariableContents == {"c1", "c2"}
DeclaredMessages == { PlainMsg("user", <<"hello">>), PlainMsg("system", <<"be brief">>) }

NextVariables ==
    \/ \E variableName \in VariableNames, content \in VariableContents :
          Def(variableName, content)
    \/ \E m \in DeclaredMessages :
          Len(messages) < MaxDefs /\ DefMessage(m.name, m.content)

SpecVariables == InitTools /\ [][NextVariables]_vars

(***************************************************************************)
(* Properties of the static task list                                      *)
(***************************************************************************)

\* C1: over any sequence of finishTask calls, passing or failing, the cursor
\* currentTaskIndex never decreases from one state to the next and always
\* equals completedTasks.length.
C1_CursorMonotoneAndCounts ==
    /\ [](currentTaskIndex = Len(completedTasks))
    /\ [][currentTaskIndex' >= currentTaskIndex]_vars

\* a failed validation after a passed one
C1_Witness == currentTaskIndex >= 1 /\ Truthy(validationFeedback)

\* What C2 says of a finishTask step whose validation returned feedback
FailedValidationEffect(feedback) ==
    /\ currentTaskIndex' = currentTaskIndex
    /\ completedTasks' = completedTasks
    /\ validationFeedback' = feedback
    /\ toolResult' = Returned(FailureText(feedback))

C11_PassEffect ==
    [][\A result \in Results :
          (currentTaskIndex < Len(tasks) /\ FinishTask(result, Undefined))
              => /\ completedTasks' =
                       Append(completedTasks,
                              [task |-> tasks[currentTaskIndex + 1], result |-> result])
                 /\ validationFeedback' = Undefined
                 /\ currentTaskIndex' = currentTaskIndex + 1
                 /\ toolResult'.kind = "return"
                 /\ toolResult'.text =
                       IF currentTaskIndex + 1 < Len(tasks)
                       THEN <<"Task completed successfully! Next task: ",
                              tasks[currentTaskIndex + 2]>>
                       ELSE <<"All tasks completed successfully! The task list is complete.">>]_vars

\* the first task of a list A, B has just been finished: the entry is
\* recorded, no feedback is pending and the text names B
C11_Witness ==
    /\ tasks = <<"A", "B">>
    /\ currentTaskIndex = 1
    /\ completedTasks = << [task |-> "A", result |-> "r2"] >>
    /\ validationFeedback = Undefined
    /\ lastCall = Call("finishTask", <<"r2">>)
    /\ toolResult = Returned(<<"Task completed successfully! Next task: ", "B">>)

(***************************************************************************)
(* Properties of the task-list hooks                                       *)
(***************************************************************************)
NameContent(msgs) == [i \in 1..Len(msgs) |-> <<msgs[i].name, msgs[i].content>>]

\* C4 as stated: two applications of the hook to the same input with no state
\* change in between give identical message sequences, every field equal, for
\* the static and for the dynamic task-list hook.
C4_EveryFieldEqual == Len(hookRuns) = 2 => hookRuns[1] = hookRuns[2]

\* C4 (amended): the two outputs have the same length and the same name and
\* content in every position; for the dynamic hook every field is equal; the
\* id and timestamp of the static hook's messages are not covered.
C4_SameNameAndContent ==
    Len(hookRuns) = 2 =>
        /\ NameContent(hookRuns[1]) = NameContent(hookRuns[2])
        /\ registered = "dynamic" => hookRuns[1] = hookRuns[2]

\* the static hook has run twice while feedback was pending
C4_Witness ==
    /\ registered = "static"
    /\ Len(hookRuns) = 2
    /\ Truthy(validationFeedback)
    /\ Len(hookRuns[2]) >= 3

\* C10: one application of the pipeline is a left fold in registration order:
\* every registered hook is called exactly once, hook k is handed the output
\* of hook k-1 (the input messages for the first), a hook returning undefined
\* leaves the accumulated messages unchanged, and the result is the last
\* accumulated value.
C10_LeftFold ==
    /\ Len(hookCalls) <= Len(hooks)
    /\ \A k \in 1..Len(hookCalls) :
          /\ hookCalls[k].hook = k
          /\ hookCalls[k].output = HookResult(hooks[k], hookCalls[k].input)
          /\ hookCalls[k].input =
                IF k = 1 THEN messages
                ELSE IF hookCalls[k-1].output.defined THEN hookCalls[k-1].output.value
                ELSE hookCalls[k-1].input
    /\ HookLoopReturned =>
          /\ Len(hookCalls) = Len(hooks)
          /\ foldMessages =
                IF hooks = <<>> THEN messages
                ELSE IF hookCalls[Len(hooks)].output.defined
                     THEN hookCalls[Len(hooks)].output.value
                     ELSE hookCalls[Len(hooks)].input
          /\ foldMessages = applyMessageHooks(messages, hooks)

\* the loop has returned after a hook that changed the messages, one that
\* returned undefined and one more
C10_Witness ==
    /\ HookLoopReturned
    /\ Len(hooks) = 3
    /\ hooks[1] = "tag"
    /\ hooks[2] = "noop"
    /\ hooks[3] = "summary"

(***************************************************************************)
(* Properties of generation and validation retries                         *)
(***************************************************************************)
\* every call so far ended in a parse or validation failure
EveryResponseFailed == Len(validationAttempts) = Len(providerCalls)

\* C3: with a response schema declared and every response failing parsing or
\* validation, the run ends after exactly 4 provider calls and exactly 4
\* recorded validation attempts by throwing an error that carries the attempt
\* count and the last validation error; there is never a fifth call.
C3_RetryBound ==
    /\ Len(providerCalls) <= 4
    /\ Len(validationAttempts) <= Len(providerCalls)
    /\ (responseSchema /\ pc = "done" /\ EveryResponseFailed) =>
          /\ Len(providerCalls) = 4
          /\ Len(validationAttempts) = 4
          /\ \A k \in 1..4 : validationAttempts[k].attempt = k
          /\ outcome.kind = "throw"
          /\ outcome.text = <<"Failed to get valid response after ", 4, " attempts. ",
                              "Last error: ", validationAttempts[4].error>>

\* a run whose four responses all failed, the first for lack of JSON and the
\* last against the schema
C3_Witness ==
    /\ responseSchema
    /\ pc = "done"
    /\ EveryResponseFailed
    /\ Len(providerCalls) = 4
    /\ validationAttempts[1].response = <<"w">>
    /\ validationAttempts[4].response = <<"{", "bad", "}">>
    /\ outcome.kind = "throw"

\* C13: without a response schema the run makes exactly one provider call
\* and returns that call's final text unchanged, whatever the text is; no
\* validation attempt is recorded and there is no retry.
C13_NoSchemaSingleCall ==
    /\ [](~responseSchema =>
            /\ Len(providerCalls) <= 1
            /\ validationAttempts = <<>>
            /\ attempt = 0
            /\ (pc = "done" => Len(providerCalls) = 1 /\ outcome.kind = "return"))
    /\ [][\A finalText \in ResponseTexts :
            (~responseSchema /\ ModelAnswers(finalText))
               => /\ pc' = "done"
                  /\ outcome' = Returned(finalText)
                  /\ providerCalls' = providerCalls]_vars

\* a run without schema has returned a text that would not parse as JSON
C13_Witness ==
    /\ ~responseSchema
    /\ pc = "done"
    /\ outcome = Returned(<<"{", "w">>)
    /\ Len(providerCalls) = 1

\* Responses that hold one object satisfying the schema, bare or inside prose
PassingTexts == { <<"{", "ok", "}">>, <<"w", "{", "ok", "}", "w">> }

\* C12: with a response schema declared, when the first k-1 responses fail
\* and the k-th passes (1 <= k <= 4), the run resolves to the validated value
\* of the k-th response after exactly k provider calls with exactly k-1
\* validation attempts recorded.
C12_RetrySuccess ==
    /\ [](responseSchema /\ pc = "done" /\ outcome.kind = "return" =>
            /\ Len(providerCalls) \in 1..4
            /\ Len(validationAttempts) = Len(providerCalls) - 1
            /\ \A k \in 1..Len(validationAttempts) : validationAttempts[k].attempt = k
            /\ outcome.text = "ok")
    /\ [][\A finalText \in PassingTexts :
            (responseSchema /\ ModelAnswers(finalText))
               => /\ pc' = "done"
                  /\ outcome' = Returned("ok")
                  /\ providerCalls' = providerCalls
                  /\ validationAttempts' = validationAttempts
                  /\ Len(validationAttempts) = Len(providerCalls) - 1]_vars

\* two responses failed and the third passed: the third call carried the
\* retry messages
C12_Witness ==
    /\ responseSchema
    /\ pc = "done"
    /\ outcome = Returned("ok")
    /\ Len(providerCalls) = 3
    /\ Len(validationAttempts) = 2
    /\ Len(providerCalls[3]) > Len(providerCalls[1])

(***************************************************************************)
(* Properties of a run with the dynamic task list                          *)
(***************************************************************************)
SomeTaskIncomplete ==
    \E i \in 1..Len(taskOrder) : taskMap[taskOrder[i]].status # "completed"

\* the messages of a call contain a user message that names a task of the
\* list that is not completed
PresentsOutstanding(wire) ==
    \E i \in 1..Len(wire), k \in 1..Len(taskOrder) :
        /\ taskMap[taskOrder[k]].status # "completed"
        /\ wire[i][1] = "user"
        /\ Len(wire[i][2]) = 4
        /\ wire[i][2][1] = "["
        /\ wire[i][2][2] = taskOrder[k]

\* C8: in a run with a dynamic task list, a model call that ends while a task
\* of the list is not completed does not end the run with a final answer: the
\* outstanding task is presented to the model in a further call.
C8_CompletionGate ==
    [][(pc = "generating" /\ pc' # "generating" /\ SomeTaskIncomplete)
          => /\ outcome'.kind # "return"
             /\ (pc' = "call" => PresentsOutstanding(currentMessages'))]_vars

(***************************************************************************)
(* Properties of the dynamic task list                                     *)
(***************************************************************************)
CountStatus(st) == Cardinality({id \in DOMAIN taskMap : taskMap[id].status = st})

\* C5: the number of pending plus in_progress plus completed tasks equals the
\* length of the order list, which equals the number of successful createTask
\* calls minus the number of successful deleteTask calls.
C5_Counters ==
    /\ CountStatus("pending") + CountStatus("in_progress") + CountStatus("completed")
         = Len(taskOrder)
    /\ Len(taskOrder) = createdCount - deletedCount

\* one task deleted, one in progress or completed
C5_Witness ==
    /\ deletedCount >= 1
    /\ CountStatus("in_progress") + CountStatus("completed") >= 1

\* C6: createTask allocates task-n with n strictly greater than the n of every
\* id allocated earlier, so no id is assigned twice, also after a deletion.
C6_IdsNeverReused ==
    \A i, j \in 1..Len(allocated) : i < j => allocated[i][2] < allocated[j][2]

\* a task was created after an earlier one had been deleted
C6_Witness ==
    /\ Len(allocated) >= 2
    /\ ~Has(taskMap, allocated[1])
    /\ Has(taskMap, allocated[Len(allocated)])

StatusRank(st) == CASE st = "pending" -> 0 [] st = "in_progress" -> 1 [] st = "completed" -> 2

\* C7: the status of a task only moves pending -> in_progress, pending ->
\* completed or in_progress -> completed; never from completed to another
\* status, never from in_progress to pending; startTask on an in_progress
\* task leaves its status unchanged.
C7_StatusMonotonic ==
    [][/\ \A id \in DOMAIN taskMap \cap DOMAIN taskMap' :
             StatusRank(taskMap'[id].status) >= StatusRank(taskMap[id].status)
       /\ (/\ hookRuns' = <<>>
           /\ lastCall'.tool = "startTask"
           /\ StatusIs(lastCall'.args[1], "in_progress"))
          => taskMap' = taskMap]_vars

\* startTask was refused on a completed task
C7_Witness ==
    \E id \in DOMAIN taskMap :
        /\ taskMap[id].status = "completed"
        /\ toolResult = ErrorText(<<"Task ", id, " is already completed.">>)

\* A step that is a tool call (a hook application appends to hookRuns)
IsToolStep == hookRuns' = <<>>

\* The state in which the tool refuses the task id
Refuses(tool, id) ==
    \/ ~Has(taskMap, id)
    \/ StatusIs(id, "completed")
    \/ tool \in {"updateTask", "deleteTask"} /\ StatusIs(id, "in_progress")

\* C9: updateTask, startTask, completeTask and deleteTask, called with an
\* unknown id or on a task whose status forbids the operation, return an error
\* text, never throw, and leave the task map, the order list and the id
\* counter unchanged.
C9_ErrorsAreValues ==
    [][/\ toolResult'.kind # "throw"
       /\ (/\ IsToolStep
           /\ lastCall'.tool \in {"updateTask", "startTask", "completeTask", "deleteTask"}
           /\ Refuses(lastCall'.tool, lastCall'.args[1]))
          => (IsError(toolResult') /\ UNCHANGED <<taskMap, taskOrder, nextId>>)]_vars

\* deleteTask was refused on the task in progress, which is still there
C9_Witness ==
    \E id \in DOMAIN taskMap :
        /\ taskMap[id].status = "in_progress"
        /\ toolResult = ErrorText(<<"Cannot delete in-progress task ", id>>)

\* C14: deleteTask succeeds exactly when the id names an existing pending
\* task; on success the id leaves the map and the order list, the other
\* entries and the relative order of the remaining ids are unchanged; for an
\* unknown, in-progress or completed task nothing is removed.
C14_DeleteOnlyPending ==
    [][(IsToolStep /\ lastCall'.tool = "deleteTask") =>
          LET id == lastCall'.args[1]
              NotId(x) == x # id
          IN  IF id \in DOMAIN taskMap /\ taskMap[id].status = "pending"
              THEN /\ IsOk(toolResult')
                   /\ DOMAIN taskMap' = DOMAIN taskMap \ {id}
                   /\ \A x \in DOMAIN taskMap' : taskMap'[x] = taskMap[x]
                   /\ taskOrder' = SelectSeq(taskOrder, NotId)
                   /\ Len(taskOrder') = Len(taskOrder) - 1
              ELSE /\ ~IsOk(toolResult')
                   /\ taskMap' = taskMap
                   /\ taskOrder' = taskOrder]_vars

\* the second of three tasks has just been deleted: the first and the third
\* remain, in that order
C14_Witness ==
    /\ lastCall = Call("deleteTask", <<TaskId(2)>>)
    /\ IsOk(toolResult)
    /\ taskOrder = <<TaskId(1), TaskId(3)>>
    /\ DOMAIN taskMap = {TaskId(1), TaskId(3)}

ReplacesHistory(output) == \A other \in InputMsgs \cup {<<>>} : DynamicHook(other) = output

C20_NoCallWhilePaused ==
    [][paused => Len(providerCalls') = Len(providerCalls)]_vars

C17_NoDuplicateToolNames ==
    \A i, j \in 1..Len(tools) : i # j => tools[i].name # tools[j].name

\* C18: registering a static task list with an empty task array throws at
\* once, and the context's tools, hooks and messages (and the task-list
\* state) are as they were before the call.
C18_EmptyTaskListRejected ==
    [][DefTaskList(<<>>) =>
          /\ defResult'.kind = "throw"
          /\ defResult'.text = <<"Task list must contain at least one task">>
          /\ tools' = tools
          /\ hooks' = hooks
          /\ messages' = messages
          /\ registered' = registered
          /\ UNCHANGED staticVars]_vars

\* the empty list was refused in a context that already holds a tool, a hook
\* and a message, and no task list is registered
C18_Witness ==
    /\ defResult = Thrown(<<"Task list must contain at least one task">>)
    /\ registered = "none"
    /\ Len(tools) = 1
    /\ Len(hooks) = 1
    /\ Len(messages) = 1
    /\ \A i \in 1..Len(tools) : tools[i].name # "finishTask"

(***************************************************************************)
(* Properties of the variable and message builder                          *)
(***************************************************************************)
InstructionPositions == { i \in 1..Len(messages) : messages[i] = VariableInstructions }

\* C21: the message list holds the variable instruction exactly once if def
\* was called at least once and not at all otherwise, and the instruction
\* stands where the list ended when def was first called: the first def
\* appends it, and no later call moves or removes a message.
C21_InstructionOnce ==
    /\ [](Cardinality(InstructionPositions) = IF variables # EmptyMap THEN 1 ELSE 0)
    /\ [][/\ Len(messages') >= Len(messages)
          /\ SubSeq(messages', 1, Len(messages)) = messages
          /\ (variables = EmptyMap /\ variables' # EmptyMap)
                => messages' = Append(messages, VariableInstructions)]_vars

\* def was called for two variables after a message was declared
C21_Witness ==
    /\ Has(variables, "X") /\ Has(variables, "Y")
    /\ Len(messages) >= 3
    /\ InstructionPositions = {2}

(***************************************************************************)
(* Properties of the static task list with compaction                      *)
(***************************************************************************)
\* C22: also when finishTask executions overlap at the await of the
\* compaction, the i-th record is the i-th task (each task recorded at most
\* once, none skipped), the cursor counts the records and never exceeds the
\* number of tasks.
C22_OverlapSafe ==
    /\ currentTaskIndex <= Len(tasks)
    /\ Len(completedTasks) = currentTaskIndex
    /\ \A i \in 1..Len(completedTasks) :
          i <= Len(tasks) /\ completedTasks[i].task = tasks[i]

(***************************************************************************)
(* Properties of the retry input                                           *)
(***************************************************************************)
\* the messages of the k-th provider call without its last n messages
CallHead(k, n) == SubSeq(providerCalls[k], 1, Len(providerCalls[k]) - n)

\* C23: with no tool or task state changing between attempts, the hook-derived
\* messages at the head of every retry attempt's input (all but its last
\* three messages) are the hook-derived messages of the first attempt (all
\* but the turn text).
C23_RetryBaseStable ==
    \A k \in 2..Len(providerCalls) : CallHead(k, 3) = CallHead(1, 1)

(***************************************************************************)
(* Properties of the dynamic hook's choice of tasks                        *)
(***************************************************************************)
\* C24: at most one dynamic task is in_progress in any reachable state.
C24_SingleInProgress == Len(WithStatus("in_progress")) <= 1

\* the hook replaces the history in this state
HookActive == registered = "dynamic" /\ hasStarted /\ Len(taskOrder) > 0

\* how many user messages of the output name the task
NamedInUser(output, id) ==
    Cardinality({ i \in 1..Len(output) :
                    /\ output[i].name = "user"
                    /\ output[i].content[1] = "["
                    /\ output[i].content[2] = id })

\* how many lines of the output's upcoming-tasks listing name the task
ListedUpcoming(output, id) ==
    Cardinality({ p \in (1..Len(output)) \X (1..Len(taskOrder)) :
                    /\ output[p[1]].name = "system"
                    /\ output[p[1]].content[1] = "Upcoming tasks:\n"
                    /\ p[2] <= Len(output[p[1]].content[2])
                    /\ output[p[1]].content[2][p[2]][1] = id })

\* C25: whenever the hook is active and some task is incomplete, every task
\* that is not completed appears exactly once in the hook output, as the
\* current task in the user message or in the upcoming-tasks listing (so the
\* current task is not in the listing).
C25_HookCoverage ==
    (HookActive /\ SomeTaskIncomplete) =>
        \A k \in 1..Len(hookRuns), n \in 1..Len(taskOrder) :
            taskMap[taskOrder[n]].status # "completed" =>
                NamedInUser(hookRuns[k], taskOrder[n])
                  + ListedUpcoming(hookRuns[k], taskOrder[n]) = 1

\* the first task in insertion order with the status
FirstWith(st) ==
    taskOrder[CHOOSE n \in 1..Len(taskOrder) :
                 /\ taskMap[taskOrder[n]].status = st
                 /\ \A j \in 1..(n - 1) : taskMap[taskOrder[j]].status # st]

ExpectedCurrent ==
    IF \E n \in 1..Len(taskOrder) : taskMap[taskOrder[n]].status = "in_progress"
    THEN FirstWith("in_progress")
    ELSE FirstWith("pending")

\* C26: when the hook is active, its output contains exactly one user message
\* and it is the last message; with a task incomplete it names the first
\* in_progress task in insertion order if there is one and else the first
\* pending task; with every task completed it asks for the final summary; the
\* completed-tasks summary is present exactly when a task is completed.
C26_OutputShape ==
    HookActive =>
        \A k \in 1..Len(hookRuns) :
            LET output == hookRuns[k]
                last   == output[Len(output)]
            IN  /\ { i \in 1..Len(output) : output[i].name = "user" } = {Len(output)}
                /\ IF SomeTaskIncomplete
                   THEN /\ last.content[1] = "["
                        /\ last.content[2] = ExpectedCurrent
                        /\ last.content[4] = taskMap[ExpectedCurrent].description
                   ELSE /\ last.content[1] = "All "
                        /\ last.content[2] = Len(taskOrder)
                /\ (\E i \in 1..Len(output) :
                        /\ output[i].name = "system"
                        /\ output[i].content[1] = "Completed tasks (")
                   <=> (\E n \in 1..Len(taskOrder) :
                           taskMap[taskOrder[n]].status = "completed")

\* the hook ran while the second task was in progress and the first pending
C26_Witness ==
    /\ HookActive
    /\ Len(hookRuns) >= 1
    /\ Len(taskOrder) = 2
    /\ taskMap[taskOrder[1]].status = "pending"
    /\ taskMap[taskOrder[2]].status = "in_progress"

(***************************************************************************)
(* Properties of the static hook's output                                  *)
(***************************************************************************)
Count(b) == IF b THEN 1 ELSE 0

\* The output is, in order: the instructions; the summary of the completed
\* tasks when c > 0, its i-th line being Line(i); the listing of tasks
\* c+2..N when c < N-1; the user message of task c+1 when c < N; the feedback
\* when c < N and feedback is pending.  No input message is carried over: the
\* output is the same for every input.
StaticOutputShape(output, Line(_)) ==
    LET c           == currentTaskIndex
        N           == Len(tasks)
        hasSummary  == c > 0
        hasUpcoming == c < N - 1
        hasUser     == c < N
        hasFeedback == c < N /\ Truthy(validationFeedback)
        atUpcoming  == 1 + Count(hasSummary) + 1
        atUser      == 1 + Count(hasSummary) + Count(hasUpcoming) + 1
    IN  /\ Len(output) = 1 + Count(hasSummary) + Count(hasUpcoming)
                           + Count(hasUser) + Count(hasFeedback)
        /\ output[1] = PlainMsg("system", StaticInstructions)
        /\ hasSummary =>
              /\ output[2].name = "system"
              /\ output[2].content[1] = "Completed tasks ("
              /\ output[2].content[2] = c
              /\ output[2].content[4] = N
              /\ Len(output[2].content[6]) = c
              /\ \A i \in 1..c : output[2].content[6][i] = Line(i)
        /\ hasUpcoming =>
              /\ output[atUpcoming].name = "system"
              /\ output[atUpcoming].content[1] = "Upcoming tasks:\n"
              /\ Len(output[atUpcoming].content[2]) = N - c - 1
              /\ \A i \in 1..(N - c - 1) :
                    output[atUpcoming].content[2][i] = <<c + 1 + i, ". ", tasks[c + 1 + i]>>
        /\ hasUser =>
              /\ output[atUser].name = "user"
              /\ output[atUser].content = <<"[Task ", c + 1, "/", N, "] ", tasks[c + 1]>>
        /\ hasFeedback =>
              /\ output[atUser + 1].name = "system"
              /\ output[atUser + 1].content
                    = <<"Previous attempt feedback: ", validationFeedback>>
        /\ \A other \in InputMsgs : CompactingHook(other) = output

LineWithResult(i) ==
    <<"Task ", i, ": ", tasks[i], "\nResult: ", completedTasks[i].result>>

LineOfRecord(i) ==
    IF Truthy(completedTasks[i].compactedHistory)
    THEN <<"Task ", i, ": ", completedTasks[i].task, "\n", completedTasks[i].compactedHistory>>
    ELSE <<"Task ", i, ": ", completedTasks[i].task, "\nResult: ", completedTasks[i].result>>

\* C27 as stated: the static hook's output is a function of the task-list
\* state only, with the summary listing tasks 1..c with their results.
C27_SummaryWithResults ==
    \A k \in 1..Len(hookRuns) : StaticOutputShape(hookRuns[k], LineWithResult)

\* C27 (amended): the same output shape, with the summary listing the c
\* recorded completions in order, each with its task and its result or, when
\* the completion carries a compacted history, with that history in place of
\* the result.
C27_SummaryOfRecords ==
    \A k \in 1..Len(hookRuns) : StaticOutputShape(hookRuns[k], LineOfRecord)

\* the hook ran with one task finished and compacted, one task left and
\* feedback pending
C27_Witness ==
    /\ Len(hookRuns) >= 1
    /\ currentTaskIndex = 1
    /\ Len(tasks) = 2
    /\ Truthy(completedTasks[1].compactedHistory)
    /\ Truthy(validationFeedback)

(***************************************************************************)
(* Properties of a retry after the task list changed                       *)
(***************************************************************************)
\* the task numbers the user messages of the wire messages name
TasksNamed(wire) ==
    { wire[i][2][2] : i \in { j \in 1..Len(wire) :
                                /\ wire[j][1] = "user"
                                /\ wire[j][2][1] = "[Task " } }

\* the input of the latest call without the three messages a retry appends
LastRetryHead(calls) ==
    SubSeq(calls[Len(calls)], 1, Len(calls[Len(calls)]) - 3)

\* C28: the messages of a retry attempt are built from the task-list state at
\* retry time: the hook-derived head of the call's input names the task at
\* the cursor as it is when the retry is sent (none when the list is done),
\* whatever task the first attempt named.
C28_RetryNamesCurrentTask ==
    [][(pc = "call" /\ pc' = "generating" /\ attempt > 0)
          => TasksNamed(LastRetryHead(providerCalls'))
               = (IF currentTaskIndex < Len(tasks) THEN {currentTaskIndex + 1} ELSE {})]_vars

\* a retry was sent after finishTask advanced the cursor during the failed
\* attempt: the first call named task 1, the retry names task 2
C28_Witness ==
    /\ Len(providerCalls) = 2
    /\ TasksNamed(CallHead(1, 1)) = {1}
    /\ TasksNamed(CallHead(2, 3)) = {2}

(***************************************************************************)
(* Properties of the retry input's tail and of the validation log          *)
(***************************************************************************)
\* the feedback text a retry carries for a logged validation attempt
FeedbackFor(logged) ==
    IF Len(logged.error) = 3
    THEN logged.error
    ELSE <<"Your response could not be parsed as valid JSON. Error: ", logged.error[1],
           "Please provide a valid JSON response matching the required schema.">>

\* C29: the input of every retry attempt ends with three messages: the turn
\* text as user, the raw text of the attempt that failed just before as
\* assistant, and the validation feedback of that attempt as user; nothing of
\* earlier failed attempts is carried over: with the hook output unchanged
\* every retry has the same head and so the same length.
C29_RetryTail ==
    \A k \in 2..Len(providerCalls) :
        LET call == providerCalls[k]
            n    == Len(call)
            prev == validationAttempts[k - 1]
        IN  /\ n >= 3
            /\ call[n - 2] = <<"user", <<promptResult>>>>
            /\ call[n - 1][1] = "assistant"
            /\ call[n - 1][2] = prev.response
            /\ call[n][1] = "user"
            /\ call[n][2] = FeedbackFor(prev)
            /\ CallHead(k, 3) = CallHead(2, 3)
            /\ n = Len(providerCalls[2])

\* a third attempt was sent after two different failures: a text without
\* JSON, then JSON that does not match the schema
C29_Witness ==
    /\ Len(providerCalls) = 3
    /\ validationAttempts[1].response = <<"w">>
    /\ validationAttempts[2].response = <<"{", "bad", "}">>
    /\ hooks # <<>>

\* the call that just ended passed: the run returned its value
CallPassed == pc' = "done" /\ outcome'.kind = "return"

\* C30: the validation-attempt log is append-only.  Its k-th entry carries
\* the attempt number k and the log is never longer than the number of
\* provider calls; a step never changes or removes an entry; a call that ends
\* with a failed validation adds exactly one entry, numbered after the call
\* and holding the raw text the retry then shows to the model, and a call
\* that passes adds none.
C30_LogAppendOnly ==
    /\ [](/\ Len(validationAttempts) <= Len(providerCalls)
          /\ \A k \in 1..Len(validationAttempts) : validationAttempts[k].attempt = k)
    /\ [][/\ Len(validationAttempts') >= Len(validationAttempts)
          /\ SubSeq(validationAttempts', 1, Len(validationAttempts)) = validationAttempts
          /\ IF pc = "generating" /\ pc' # "generating" /\ responseSchema /\ ~CallPassed
             THEN /\ Len(validationAttempts') = Len(validationAttempts) + 1
                  /\ validationAttempts'[Len(validationAttempts')].attempt
                        = Len(providerCalls)
                  /\ pc' = "call" =>
                        currentMessages'[Len(currentMessages') - 1][2]
                          = validationAttempts'[Len(validationAttempts')].response
             ELSE validationAttempts' = validationAttempts]_vars

\* two calls failed and were logged, the third passed and added nothing
C30_Witness ==
    /\ pc = "done"
    /\ outcome.kind = "return"
    /\ Len(providerCalls) = 3
    /\ Len(validationAttempts) = 2

(***************************************************************************)
(* Properties of the static task list's cursor and records                 *)
(***************************************************************************)
\* C31: for any sequence of finishTask calls, also calls made after the
\* cursor has reached N, the cursor stays within 0..N and completedTasks
\* never holds more than N entries; a call made when the cursor equals N
\* changes no state of the task list.
C31_CursorBounded ==
    /\ [](/\ currentTaskIndex \in 0..Len(tasks)
          /\ Len(completedTasks) <= Len(tasks))
    /\ [][(lastCall'.tool = "finishTask" /\ hookRuns' = <<>>
              /\ currentTaskIndex = Len(tasks))
            => staticVars' = staticVars]_vars

\* finishTask was called with the cursor at N
C31_Witness ==
    /\ currentTaskIndex = Len(tasks)
    /\ Len(completedTasks) = Len(tasks)
    /\ lastCall.tool = "finishTask"
    /\ toolResult.kind = "throw"

\* every record below the cursor holds the prompt of the task at its position
RecordsInListOrder ==
    /\ Len(completedTasks) = currentTaskIndex
    /\ currentTaskIndex <= Len(tasks)
    /\ \A i \in 1..currentTaskIndex : completedTasks[i].task = tasks[i]

\* a finishTask step that records its result
Records(result, feedback) ==
    /\ currentTaskIndex < Len(tasks)
    /\ FinishTask(result, feedback)
    /\ completedTasks' # completedTasks

FeedbackShown(output) ==
    { output[i].content[2] : i \in { j \in 1..Len(output) :
                                       output[j].content[1] = "Previous attempt feedback: " } }

\* C33: whenever feedback is pending, the cursor is below N and the feedback
\* is the text the most recent finishTask call returned for the task at the
\* cursor (that call failed and nothing was called since); a step that
\* advances the cursor clears it, and the hook shows the pending feedback
\* and no other.
C33_FeedbackOfCurrentTask ==
    /\ [](Truthy(validationFeedback) =>
            /\ currentTaskIndex < Len(tasks)
            /\ lastCall.tool = "finishTask"
            /\ toolResult = Returned(FailureText(validationFeedback)))
    /\ [](\A k \in 1..Len(hookRuns) :
            FeedbackShown(hookRuns[k])
              = (IF Truthy(validationFeedback) THEN {validationFeedback} ELSE {}))
    /\ [][currentTaskIndex' # currentTaskIndex => validationFeedback' = Undefined]_vars

\* the second task failed validation with "fb2" and the hook then showed it
C33_Witness ==
    /\ currentTaskIndex = 1
    /\ validationFeedback = "fb2"
    /\ Len(hookRuns) >= 1
    /\ FeedbackShown(hookRuns[1]) = {"fb2"}

(***************************************************************************)
(* Structure and frame of the dynamic task list                            *)
(***************************************************************************)
\* C34: the order list contains exactly the keys of the task map, each once,
\* in increasing creation order (the ids carry the creation counter), and
\* each map entry's id field equals its key.
C34_OrderMatchesMap ==
    /\ { taskOrder[i] : i \in 1..Len(taskOrder) } = DOMAIN taskMap
    /\ \A i, j \in 1..Len(taskOrder) : i < j => taskOrder[i][2] < taskOrder[j][2]
    /\ \A id \in DOMAIN taskMap : taskMap[id].id = id

\* three tasks were created and the middle one deleted
C34_Witness ==
    /\ taskOrder = << TaskId(1), TaskId(3) >>
    /\ DOMAIN taskMap = { TaskId(1), TaskId(3) }

\* the tasks other than the one the call names are as they were
OthersUnchanged(target) ==
    \A id \in DOMAIN taskMap : id # target => (Has(taskMap', id) /\ taskMap'[id] = taskMap[id])

\* keys, order list and id counter are as they were
CollectionUnchanged ==
    /\ DOMAIN taskMap' = DOMAIN taskMap
    /\ taskOrder' = taskOrder
    /\ nextId' = nextId

\* C35: a call of a dynamic tool changes only the task it names: every other
\* task is unchanged; createTask adds one entry (changing the id counter and
\* the order list), deleteTask removes at most the named entry (changing the
\* order list), the other tools leave keys, order and counter alone;
\* updateTask changes only the description of a task that is pending and
\* never a status; getTaskList changes nothing.
C35_ToolFrame ==
    [][IsToolStep =>
         LET tool == lastCall'.tool
             args == lastCall'.args
         IN  CASE tool = "createTask" ->
                    /\ \A id \in DOMAIN taskMap : Has(taskMap', id) /\ taskMap'[id] = taskMap[id]
                    /\ Cardinality(DOMAIN taskMap' \ DOMAIN taskMap) = 1
                    /\ Len(taskOrder') = Len(taskOrder) + 1
                    /\ SubSeq(taskOrder', 1, Len(taskOrder)) = taskOrder
               [] tool = "updateTask" ->
                    /\ OthersUnchanged(args[1])
                    /\ CollectionUnchanged
                    /\ taskMap' # taskMap =>
                          /\ taskMap[args[1]].status = "pending"
                          /\ taskMap' = [taskMap EXCEPT ![args[1]].description = args[2]]
               [] tool \in {"startTask", "completeTask"} ->
                    /\ OthersUnchanged(args[1])
                    /\ CollectionUnchanged
                    /\ Has(taskMap, args[1]) =>
                          taskMap'[args[1]].description = taskMap[args[1]].description
               [] tool = "deleteTask" ->
                    /\ OthersUnchanged(args[1])
                    /\ DOMAIN taskMap \ DOMAIN taskMap' \subseteq {args[1]}
                    /\ DOMAIN taskMap' \subseteq DOMAIN taskMap
                    /\ nextId' = nextId
               [] tool = "getTaskList" ->
                    <<taskMap, taskOrder, nextId, hasStarted>>'
                      = <<taskMap, taskOrder, nextId, hasStarted>>
               [] OTHER -> TRUE]_vars

\* the first of two tasks was updated and then started while the second
\* stayed pending with its own description
C35_Witness ==
    /\ Len(taskOrder) = 2
    /\ lastCall.tool = "startTask"
    /\ taskMap[taskOrder[1]].status = "in_progress"
    /\ taskMap[taskOrder[1]].description = "B"
    /\ taskMap[taskOrder[2]].status = "pending"
    /\ taskMap[taskOrder[2]].description = "A"

(***************************************************************************)
(* Properties of the JSON extraction                                       *)
(***************************************************************************)
\* the first top-level {...} block of a text: from its first opening brace to
\* the first closing brace after it
FirstBlock(text) ==
    LET opens  == {i \in 1..Len(text) : text[i] = "{"}
        first  == CHOOSE i \in opens : \A j \in opens : i <= j
        closes == {i \in 1..Len(text) : text[i] = "}" /\ i > first}
        close  == CHOOSE i \in closes : \A j \in closes : i <= j
    IN  IF opens # {} /\ closes # {} THEN SubSeq(text, first, close) ELSE <<>>

\* C36: when the response text is not valid JSON the engine parses the first
\* top-level {...} block of the text: a response whose first block is a
\* well-formed object that matches the schema is validated from that block,
\* so no such response is recorded as a failed attempt.
C36_FirstBlockParsed ==
    \A k \in 1..Len(validationAttempts) :
        FirstBlock(validationAttempts[k].response) # <<"{", "ok", "}">>

(***************************************************************************)
(* The streaming buffer: the loop over result.textStream                   *)
(***************************************************************************)
MaxChunks == 2
TextParts == {"w", "num"}

\* the loop's local streamedText: '' until the current call's first chunk
StreamedText ==
    IF received.call = Len(providerCalls) THEN received.chunks ELSE <<>>

\* one iteration of for await (const textPart of result.textStream)
TextPart(textPart) ==
    /\ pc = "generating"
    /\ Len(StreamedText) < MaxChunks
    /\ received' = [call |-> Len(providerCalls), chunks |-> Append(StreamedText, textPart)]
    /\ streamingText' = Append(StreamedText, textPart)
    /\ UNCHANGED <<registered, staticVars, dynVars, lastCall, toolResult, pipeVars, hookVars,
                   ctxVars, wrapVars, paused, compactVars, subagent, engVars>>

\* the stream ends: await result.text gives the text streamed
TextStreamEnds == ModelAnswers(StreamedText)

NextStream ==
    \/ ExecuteAgent
    \/ StreamText
    \/ \E textPart \in TextParts : TextPart(textPart)
    \/ TextStreamEnds

SpecStream == InitRetry /\ [][NextStream]_vars

\* C37: at every point of an attempt, from the streamText call to the end of
\* its stream, the streaming buffer is the concatenation of the chunks this
\* attempt has received so far; it never shows an earlier attempt's text.
C37_BufferOfThisAttempt ==
    pc = "generating" => streamingText = StreamedText

\* C39: when the compaction of a finishTask whose validation passed fails,
\* the task is still recorded, with the fallback summary, the cursor advances
\* by one, the pending feedback is cleared and the stored history is emptied.
C39_FailureStillCompletes ==
    [][\A i \in 1..MaxOverlap :
          CompactionFails(i) =>
             /\ completedTasks' =
                   Append(completedTasks,
                          CompletedRecord(suspended[i].task, suspended[i].result,
                                          FallbackSummary(suspended[i].messages)))
             /\ currentTaskIndex' = currentTaskIndex + 1
             /\ validationFeedback' = Undefined
             /\ originalMessages' = <<>>
             /\ toolResult'.kind = "return"]_vars

C39_Witness ==
    /\ compactionConfig
    /\ currentTaskIndex = 1
    /\ Len(completedTasks) = 1
    /\ completedTasks[1].compactedHistory = FallbackSummary(<<PlainMsg("assistant", <<"hello">>)>>)
    /\ validationFeedback = Undefined
    /\ originalMessages = <<>>
    /\ suspended = <<>>

(***************************************************************************)
(* defAgent: a tool whose executor is a nested run                         *)
(***************************************************************************)
\* the wrapper pushes the parent's record and calls the executor built by
\* defAgent, which creates subMessages, subTools and subHooks; the nested run
\* gets a state object of its own
AgentCalled(name, args) ==
    /\ \E k \in 1..Len(tools) : tools[k] = [name |-> name, execute |-> "agent"]
    /\ subagent.call \notin inFlight
    /\ toolCalls' = Append(toolCalls, [tool |-> name, args |-> args,
                                       result |-> Undefined, error |-> Undefined])
    /\ inFlight' = inFlight \cup {Len(toolCalls) + 1}
    /\ callOutcomes' = Append(callOutcomes, NoResult)
    /\ subagent' = [call |-> Len(toolCalls) + 1, runs |-> subagent.runs + 1,
                    messages |-> <<>>, tools |-> <<>>, hooks |-> <<>>,
                    toolCalls |-> <<>>, validationAttempts |-> <<>>]
    /\ UNCHANGED <<registered, staticVars, dynVars, lastCall, toolResult, pipeVars, hookVars,
                   engVars, ctxVars, paused, compactVars, streamVars>>

\* fn(args, extendedCtx): the agent's function registers on the sub context
AgentPrompt(msgs, ts, hs) ==
    /\ subagent.call \in inFlight
    /\ subagent.messages = <<>> /\ subagent.tools = <<>> /\ subagent.hooks = <<>>
    /\ subagent.toolCalls = <<>> /\ subagent.validationAttempts = <<>>
    /\ subagent' = [subagent EXCEPT !.messages = msgs, !.tools = ts, !.hooks = hs]
    /\ UNCHANGED <<registered, staticVars, dynVars, lastCall, toolResult, pipeVars, hookVars,
                   engVars, ctxVars, wrapVars, paused, compactVars, streamVars>>

\* (variant: the nested run's tools are wrapped around the parent's state)
SubToolCall_OnParent(tool, args) ==
    /\ subagent.call \in inFlight
    /\ \E k \in 1..Len(subagent.tools) : subagent.tools[k].name = tool
    /\ toolCalls' = Append(toolCalls, [tool |-> tool, args |-> args,
                                       result |-> Undefined, error |-> Undefined])
    /\ callOutcomes' = Append(callOutcomes, NoResult)
    /\ UNCHANGED <<registered, staticVars, dynVars, lastCall, toolResult, pipeVars, hookVars,
                   engVars, ctxVars, inFlight, subagent, paused, compactVars, streamVars>>

\* a tool call of the nested run: convertToolsToAIFormat(subState.tools,
\* subState, ...) pushes the record on subState.toolCalls
SubToolCall(tool, args) ==
    /\ subagent.call \in inFlight
    /\ \E k \in 1..Len(subagent.tools) : subagent.tools[k].name = tool
    /\ subagent' = [subagent EXCEPT !.toolCalls =
                       Append(@, [tool |-> tool, args |-> args,
                                  result |-> Undefined, error |-> Undefined])]
    /\ UNCHANGED <<registered, staticVars, dynVars, lastCall, toolResult, pipeVars, hookVars,
                   engVars, ctxVars, wrapVars, paused, compactVars, streamVars>>

\* an attempt of the nested run fails validation: executeAgent({ state:
\* subState, ... }) pushes on subState.validationAttempts
SubValidationFails(finalText, validationError) ==
    /\ subagent.call \in inFlight
    /\ subagent' = [subagent EXCEPT !.validationAttempts =
                       Append(@, [attempt |-> Len(@) + 1, response |-> finalText,
                                  error |-> validationError])]
    /\ UNCHANGED <<registered, staticVars, dynVars, lastCall, toolResult, pipeVars, hookVars,
                   engVars, ctxVars, wrapVars, paused, compactVars, streamVars>>

AgentNames   == {"researcher"}
SubToolNames == {"lookup"}
MaxSubSteps  == 2   \* tool calls, and failed attempts, of one nested run

NextSubAgent ==
    \/ \E name \in AgentNames :
          toolCalls = <<>> /\ tools = <<>> /\ DefTool(name, "agent")
    \/ \E hook \in {"noop"} :
          toolCalls = <<>> /\ hooks = <<>> /\ DefHook(hook)
    \/ \E content \in {"hello"} :
          toolCalls = <<>> /\ messages = <<>> /\ DefMessage("user", <<content>>)
    \/ \E name \in AgentNames, args \in ToolArgs :
          Len(toolCalls) < MaxToolCalls /\ AgentCalled(name, args)
    \/ \E msgs \in {<<>>, <<PlainMsg("system", <<"sub">>)>>},
          ts \in {<<>>, <<[name |-> "lookup", execute |-> "f1"]>>},
          hs \in {<<>>, <<"prepend">>} :
          AgentPrompt(msgs, ts, hs)
    \/ \E tool \in SubToolNames, args \in ToolArgs :
          Len(subagent.toolCalls) < MaxSubSteps /\ SubToolCall(tool, args)
    \/ \E finalText \in {<<"w">>} :
          /\ Len(subagent.validationAttempts) < MaxSubSteps
          /\ SubValidationFails(finalText, <<"SyntaxError">>)
    \/ \E i \in 1..MaxToolCalls, value \in {"v"} : ExecutorReturns(i, value)
    \/ \E i \in 1..MaxToolCalls, thrown \in {t \in ThrownValues : t.value = "boom"} :
          ExecutorThrows(i, thrown)

SpecSubAgent == InitTools /\ [][NextSubAgent]_vars

\* C38: a sub-agent run registers in fresh lists of its own and records its
\* tool calls and validation attempts only in its own state; each run adds
\* exactly one record, the invocation, to the parent's tool calls and leaves
\* the parent's messages, tools and hooks as they were.
AgentRecords == {k \in 1..Len(toolCalls) : toolCalls[k].tool \in AgentNames}

C38_SubAgentIsolated ==
    /\ [](/\ Cardinality(AgentRecords) = subagent.runs
          /\ Len(toolCalls) = subagent.runs
          /\ validationAttempts = <<>>)
    /\ [][subagent' # subagent =>
             /\ messages' = messages
             /\ tools' = tools
             /\ hooks' = hooks
             /\ validationAttempts' = validationAttempts
             /\ IF subagent'.runs = subagent.runs + 1
                THEN /\ Len(toolCalls') = Len(toolCalls) + 1
                     /\ toolCalls'[Len(toolCalls')].tool \in AgentNames
                     /\ subagent'.messages = <<>> /\ subagent'.tools = <<>>
                     /\ subagent'.hooks = <<>> /\ subagent'.toolCalls = <<>>
                     /\ subagent'.validationAttempts = <<>>
                ELSE toolCalls' = toolCalls]_vars

C38_Witness ==
    /\ subagent.runs = 2
    /\ subagent.call \notin inFlight
    /\ Len(toolCalls) = 2
    /\ Len(messages) = 1 /\ Len(hooks) = 1 /\ Len(tools) = 1
    /\ Len(subagent.messages) = 1 /\ Len(subagent.tools) = 1 /\ Len(subagent.hooks) = 1
    /\ Len(subagent.toolCalls) = 2
    /\ Len(subagent.validationAttempts) = 1


============================================================================
